---- MODULE Spec2Model ----
(***************************************************************************)
(* Model of LargeJSONHandler (src/generate-markdown-reports.js): the       *)
(* chunked reader readJSONInChunks with its bracket scanners and snippet   *)
(* validator, and the chunked writer writeJSONInChunks.                    *)
(*                                                                         *)
(* Text is a sequence of one-character strings.  Offsets are 0-based as in *)
(* the JavaScript source; At(s, i) reads s[i].                             *)
(***************************************************************************)
EXTENDS Integers, Sequences, FiniteSets, TLC

(***************************************************************************)
(* Bounds of the model.                                                    *)
(***************************************************************************)
\* longest enumerated file content
MaxLen == 5
\* largest chunkSize option of readJSONInChunks
MaxChunk == 5
\* largest chunkSize option of writeJSONInChunks
MaxWriteChunk == 3

(***************************************************************************)
(* Characters.                                                             *)
(***************************************************************************)
QUOTE == "\""
BSLASH == "\\"
NL == "\n"
SP == " "
\* the byte a write past the end of a file leaves in the gap
NUL == "NUL"

Digits == <<"0", "1", "2", "3", "4", "5", "6", "7", "8", "9">>

IsDigit(c) == \E d \in 1..10 : Digits[d] = c

DigitVal(c) == (CHOOSE d \in 1..10 : Digits[d] = c) - 1

IsWs(c) == c = SP \/ c = NL

\* s[i] of JavaScript, for 0 <= i < s.length
At(s, i) == s[i + 1]

\* s.slice(a, b) of JavaScript for 0 <= a, 0 <= b (b is clamped to s.length)
Slice(s, a, b) ==
  LET e == IF b > Len(s) THEN Len(s) ELSE b
  IN  IF a >= e THEN <<>> ELSE SubSeq(s, a + 1, e)

Min(a, b) == IF a < b THEN a ELSE b

(***************************************************************************)
(* JSON values.  tag is one of null, bool, num, str, arr, obj.             *)
(* An object keeps its keys in JavaScript property order.                  *)
(***************************************************************************)
VNull == [tag |-> "null"]
VBool(b) == [tag |-> "bool", b |-> b]
VNum(n) == [tag |-> "num", n |-> n]
VStr(s) == [tag |-> "str", s |-> s]
VArr(es) == [tag |-> "arr", es |-> es]
VObj(ks, vs) == [tag |-> "obj", ks |-> ks, vs |-> vs]

(***************************************************************************)
(* The character set of the modelled texts.  It has no '-', '.', 'e', no   *)
(* letters of true/false/null and no escape letters other than b, so over  *)
(* it a JSON number is a run of digits and the legal escapes are \", \\    *)
(* and \b.  BS is the character \b decodes to; it never occurs in a text.  *)
(***************************************************************************)
BS == "<BS>"

Chars ==
  {"{", "}", "[", "]", QUOTE, BSLASH, ":", ",", SP, NL, "a", "b"}
    \cup {Digits[d] : d \in 1..10}

RECURSIVE DecVal(_)
DecVal(ds) ==
  IF ds = <<>> THEN 0
  ELSE 10 * DecVal(SubSeq(ds, 1, Len(ds) - 1)) + DigitVal(ds[Len(ds)])

RECURSIVE Dec(_)
Dec(n) == IF n < 10 THEN <<Digits[n + 1]>> ELSE Dec(n \div 10) \o <<Digits[(n % 10) + 1]>>

\* a property name that JavaScript orders as an array index
IsIndexKey(k) ==
  /\ Len(k) >= 1
  /\ \A i \in 1..Len(k) : IsDigit(k[i])
  /\ (Len(k) = 1 \/ k[1] # "0")

\* number of index keys among ks that are smaller than the index key k
IndexRank(ks, k) ==
  Cardinality({p \in 1..Len(ks) : IsIndexKey(ks[p]) /\ DecVal(ks[p]) < DecVal(k)})

InsertAt(seq, p, x) == SubSeq(seq, 1, p - 1) \o <<x>> \o SubSeq(seq, p, Len(seq))

\* obj[key] = val on a JavaScript object: an existing property keeps its place,
\* a new index key goes among the index keys in ascending order, any other
\* new key goes last
ObjPut(o, key, val) ==
  IF \E p \in 1..Len(o.ks) : o.ks[p] = key
  THEN LET p == CHOOSE q \in 1..Len(o.ks) : o.ks[q] = key
       IN  VObj(o.ks, [o.vs EXCEPT ![p] = val])
  ELSE IF IsIndexKey(key)
       THEN LET p == IndexRank(o.ks, key) + 1
            IN  VObj(InsertAt(o.ks, p, key), InsertAt(o.vs, p, val))
       ELSE VObj(Append(o.ks, key), Append(o.vs, val))

(***************************************************************************)
(* JSON.parse.  A parse result is [ok, pos, val]: pos is the 1-based index *)
(* of the first character after the parsed value.                          *)
(***************************************************************************)
Fail == [ok |-> FALSE, pos |-> 0, val |-> VNull]
Ok(p, v) == [ok |-> TRUE, pos |-> p, val |-> v]

RECURSIVE SkipWs(_, _)
SkipWs(s, i) == IF i <= Len(s) /\ IsWs(s[i]) THEN SkipWs(s, i + 1) ELSE i

\* the characters of a string literal after its opening quote
RECURSIVE StrBody(_, _, _)
StrBody(s, j, acc) ==
  IF j > Len(s) THEN Fail
  ELSE IF s[j] = QUOTE THEN Ok(j + 1, acc)
  ELSE IF s[j] = BSLASH
       THEN IF j + 1 > Len(s) THEN Fail
            ELSE IF s[j + 1] = QUOTE \/ s[j + 1] = BSLASH
                 THEN StrBody(s, j + 2, Append(acc, s[j + 1]))
            ELSE IF s[j + 1] = "b" THEN StrBody(s, j + 2, Append(acc, BS))
            ELSE Fail
  ELSE IF s[j] = NL THEN Fail
  ELSE StrBody(s, j + 1, Append(acc, s[j]))

RECURSIVE NumEnd(_, _)
NumEnd(s, j) == IF j <= Len(s) /\ IsDigit(s[j]) THEN NumEnd(s, j + 1) ELSE j

ParseNumber(s, j) ==
  LET e == IF s[j] = "0" THEN j + 1 ELSE NumEnd(s, j)
  IN  Ok(e, VNum(DecVal(SubSeq(s, j, e - 1))))

RECURSIVE ParseValue(_, _), ParseElems(_, _, _), ParseMembers(_, _, _)

ParseValue(s, i) ==
  LET j == SkipWs(s, i)
  IN  IF j > Len(s) THEN Fail
      ELSE IF s[j] = QUOTE
           THEN LET r == StrBody(s, j + 1, <<>>)
                IN  IF r.ok THEN Ok(r.pos, VStr(r.val)) ELSE Fail
      ELSE IF IsDigit(s[j]) THEN ParseNumber(s, j)
      ELSE IF s[j] = "["
           THEN LET k == SkipWs(s, j + 1)
                IN  IF k <= Len(s) /\ s[k] = "]" THEN Ok(k + 1, VArr(<<>>))
                    ELSE ParseElems(s, k, <<>>)
      ELSE IF s[j] = "{"
           THEN LET k == SkipWs(s, j + 1)
                IN  IF k <= Len(s) /\ s[k] = "}" THEN Ok(k + 1, VObj(<<>>, <<>>))
                    ELSE ParseMembers(s, k, VObj(<<>>, <<>>))
      ELSE Fail

ParseElems(s, k, acc) ==
  LET r == ParseValue(s, k)
  IN  IF ~r.ok THEN Fail
      ELSE LET m == SkipWs(s, r.pos)
           IN  IF m > Len(s) THEN Fail
               ELSE IF s[m] = "," THEN ParseElems(s, m + 1, Append(acc, r.val))
               ELSE IF s[m] = "]" THEN Ok(m + 1, VArr(Append(acc, r.val)))
               ELSE Fail

ParseMembers(s, k, o) ==
  IF k > Len(s) \/ s[k] # QUOTE THEN Fail
  ELSE LET key == StrBody(s, k + 1, <<>>)
       IN  IF ~key.ok THEN Fail
           ELSE LET c == SkipWs(s, key.pos)
                IN  IF c > Len(s) \/ s[c] # ":" THEN Fail
                    ELSE LET r == ParseValue(s, c + 1)
                         IN  IF ~r.ok THEN Fail
                             ELSE LET m == SkipWs(s, r.pos)
                                      o2 == ObjPut(o, key.val, r.val)
                                  IN  IF m > Len(s) THEN Fail
                                      ELSE IF s[m] = ","
                                           THEN ParseMembers(s, SkipWs(s, m + 1), o2)
                                      ELSE IF s[m] = "}" THEN Ok(m + 1, o2)
                                      ELSE Fail

\* JSON.parse(text): ok is FALSE where JSON.parse throws
JSONParse(s) ==
  LET r == ParseValue(s, 1)
  IN  IF r.ok /\ SkipWs(s, r.pos) = Len(s) + 1 THEN r ELSE Fail

(***************************************************************************)
(* JSON.stringify(value) and JSON.stringify(value, null, 2).               *)
(***************************************************************************)
EscapeChar(c) ==
  IF c = QUOTE THEN <<BSLASH, QUOTE>>
  ELSE IF c = BSLASH THEN <<BSLASH, BSLASH>>
  ELSE IF c = BS THEN <<BSLASH, "b">>
  ELSE <<c>>

RECURSIVE EscapeAll(_)
EscapeAll(cs) == IF cs = <<>> THEN <<>> ELSE EscapeChar(Head(cs)) \o EscapeAll(Tail(cs))

QuoteStr(cs) == <<QUOTE>> \o EscapeAll(cs) \o <<QUOTE>>

RECURSIVE Spaces(_)
Spaces(n) == IF n = 0 THEN <<>> ELSE <<SP>> \o Spaces(n - 1)

\* gap is 0 for JSON.stringify(v) and 2 for JSON.stringify(v, null, 2);
\* level is the nesting level of v
RECURSIVE Serialize(_, _, _), SerializeItems(_, _, _, _)

\* the members of a non-empty array or object from index p on, each after its
\* separator
SerializeItems(v, p, gap, level) ==
  LET n == IF v.tag = "arr" THEN Len(v.es) ELSE Len(v.ks)
      lead == IF gap = 0 THEN <<>> ELSE <<NL>> \o Spaces(gap * (level + 1))
      item == IF v.tag = "arr" THEN Serialize(v.es[p], gap, level + 1)
              ELSE QuoteStr(v.ks[p]) \o <<":">> \o (IF gap = 0 THEN <<>> ELSE <<SP>>)
                     \o Serialize(v.vs[p], gap, level + 1)
  IN  IF p > n THEN <<>>
      ELSE (IF p > 1 THEN <<",">> ELSE <<>>) \o lead \o item
             \o SerializeItems(v, p + 1, gap, level)

Serialize(v, gap, level) ==
  LET close == IF gap = 0 THEN <<>> ELSE <<NL>> \o Spaces(gap * level)
  IN  IF v.tag = "num" THEN Dec(v.n)
      ELSE IF v.tag = "str" THEN QuoteStr(v.s)
      ELSE IF v.tag = "null" THEN <<"n", "u", "l", "l">>
      ELSE IF v.tag = "bool"
           THEN (IF v.b THEN <<"t", "r", "u", "e">> ELSE <<"f", "a", "l", "s", "e">>)
      ELSE IF v.tag = "arr"
           THEN IF v.es = <<>> THEN <<"[", "]">>
                ELSE <<"[">> \o SerializeItems(v, 1, gap, level) \o close \o <<"]">>
      ELSE IF v.ks = <<>> THEN <<"{", "}">>
           ELSE <<"{">> \o SerializeItems(v, 1, gap, level) \o close \o <<"}">>

JSONStringify(v, pretty) == Serialize(v, IF pretty THEN 2 ELSE 0, 0)

(***************************************************************************)
(* LargeJSONHandler: the scanners, the validator and the formatter.        *)
(***************************************************************************)
IsOpen(c) == c = "{" \/ c = "["
IsClose(c) == c = "}" \/ c = "]"

\* the loop of findPreviousBracket from index i down to 0; content[i] is
\* undefined, hence no bracket, at i >= content.length
RECURSIVE PrevScan(_, _, _)
PrevScan(content, i, depth) ==
  IF i < 0 THEN -1
  ELSE IF i >= Len(content) THEN PrevScan(content, i - 1, depth)
  ELSE IF IsOpen(At(content, i))
       THEN IF depth = 0 THEN i ELSE PrevScan(content, i - 1, depth - 1)
  ELSE IF IsClose(At(content, i)) THEN PrevScan(content, i - 1, depth + 1)
  ELSE PrevScan(content, i - 1, depth)

findPreviousBracket(content, position) == PrevScan(content, position, 0)

\* the loop of findNextBracket from index i up to content.length - 1
RECURSIVE NextScan(_, _, _)
NextScan(content, i, depth) ==
  IF i >= Len(content) THEN -1
  ELSE IF IsOpen(At(content, i)) THEN NextScan(content, i + 1, depth + 1)
  ELSE IF IsClose(At(content, i))
       THEN IF depth - 1 = 0 THEN i + 1 ELSE NextScan(content, i + 1, depth - 1)
  ELSE NextScan(content, i + 1, depth)

\* the scan returning at the first closing bracket that has no opening
\* bracket since its start
findNextBracketUnopened(content, position) == NextScan(content, position, 1)

findNextBracket(content, position) == NextScan(content, position, 0)

\* validateJSONSnippet without the parse: every snippet passes
validateAlways(snippet) == TRUE

validateJSONSnippet(snippet) == JSONParse(snippet).ok

formatJSONChunk(chunk) ==
  LET parsed == JSONParse(chunk)
  IN  IF parsed.ok THEN JSONStringify(parsed.val, TRUE) ELSE chunk

\* Math.floor in place of Math.round
ProgressFloor(position, totalLength) == (100 * position) \div totalLength

\* Math.round((position / totalLength) * 100) in IEEE-754 doubles, for
\* 0 < totalLength < 80 and 0 <= position <= 2 * totalLength + 10.  Rounding to the
\* nearest integer, halves up, is exact there except at totalLength = 40, where
\* (position / 40) * 100 falls just below the half for position 23, 41, 51, 87.
Progress(position, totalLength) ==
  LET exact == (200 * position + totalLength) \div (2 * totalLength)
  IN  IF totalLength = 40 /\ position \in {23, 41, 51, 87} THEN exact - 1 ELSE exact

(***************************************************************************)
(* Inputs.                                                                 *)
(***************************************************************************)
\* characters of the enumerated file contents
EnumChars == {"[", "]", "{", "}", QUOTE}

EnumDocs == UNION {[1..n -> EnumChars] : n \in 0..MaxLen}

\* {"a":1,"b":[1,2,3]}
DocScenario == <<"{", "\"", "a", "\"", ":", "1", ",", "\"", "b", "\"", ":", "[", "1", ",", "2", ",", "3", "]", "}">>
\* ["["]
DocStringOpen == <<"[", "\"", "[", "\"", "]">>
\* [1,"["]
DocStringOpen2 == <<"[", "1", ",", "\"", "[", "\"", "]">>
\* {"a":1
DocUnclosed == <<"{", "\"", "a", "\"", ":", "1">>
\* {"a":"}"}
DocStringClose == <<"{", "\"", "a", "\"", ":", "\"", "}", "\"", "}">>
\* ["\"["]
DocEscaped == <<"[", "\"", "\\", "\"", "[", "\"", "]">>
\* [[1],[2]]
DocNested == <<"[", "[", "1", "]", ",", "[", "2", "]", "]">>
\* {"a":[1,2}
DocMismatch == <<"{", "\"", "a", "\"", ":", "[", "1", ",", "2", "}">>
\* {["["]
DocUnclosedOuter == <<"{", "[", "\"", "[", "\"", "]">>

ScenarioDocs ==
  {DocScenario, DocStringOpen, DocStringOpen2, DocUnclosed, DocStringClose,
   DocEscaped, DocNested, DocMismatch, DocUnclosedOuter}

\* the elements e, n times, with commas between them
RECURSIVE Elements(_, _)
Elements(element, n) ==
  IF n = 1 THEN element ELSE element \o <<",">> \o Elements(element, n - 1)

\* [{},{},{},{},{},{},{},{},{},{}]: an array of 10 objects of equal size
DocTenObjects == <<"[">> \o Elements(<<"{", "}">>, 10) \o <<"]">>

\* contents of the file that readJSONInChunks is given
Docs == EnumDocs \cup ScenarioDocs \cup {DocTenObjects}

\* the data given to writeJSONInChunks
WriteValues ==
  { VNum(12),
    VStr(<<"a", QUOTE>>),
    VArr(<<>>),
    VArr(<<VNum(1), VNum(2), VNum(3)>>),
    VArr(<<VArr(<<VNum(1)>>)>>),
    VArr(<<VStr(<<"[">>)>>),
    VObj(<<<<"a">>>>, <<VStr(<<"}">>)>>),
    VObj(<<<<"a">>, <<"b">>>>, <<VNum(1), VArr(<<VNum(1), VNum(2), VNum(3)>>)>>) }

\* contents of the output file before writeJSONInChunks opens it
PriorFiles == {<<>>, <<"[", "1", "]">>}

(***************************************************************************)
(* StreamingJSONParser and FinalJSONParser: the accumulator this.results   *)
(* and the recursive analysers.  structure is a function from paths        *)
(* (texts) to entries; a field an entry does not have yet is -1.           *)
(***************************************************************************)
\* if (depth < 5)
DepthCutoff == 5
\* structure[path].samples.length < 5
SampleCap == 5
\* value.substring(0, 50)
SampleLen == 50
\* keys.slice(0, 10)
PropertyCap == 10

Max(S) == CHOOSE x \in S : \A y \in S : y <= x

TypeNames == {"objects", "arrays", "strings", "numbers", "booleans", "nulls"}

EmptyStructure == [p \in {} |-> 0]

\* the object the constructor (and FinalJSONParser.resetStats) assigns
FreshResults ==
  [ topLevelKeys |-> <<>>,
    structure |-> EmptyStructure,
    maxDepth |-> 0,
    totalElements |-> 0,
    typeCounts |-> [t \in TypeNames |-> 0] ]

\* { type: "unknown", count: 0, samples: [] }
UnknownEntry ==
  [ type |-> "unknown", count |-> 0, samples |-> <<>>,
    length |-> -1, properties |-> <<>>, propertyCount |-> -1 ]

\* structure[path] = entry
PutEntry(structure, path, entry) ==
  [p \in DOMAIN structure \cup {path} |-> IF p = path THEN entry ELSE structure[p]]

\* the counter a value is counted in, by the order of the typeof tests
CounterOf(value) ==
  CASE value.tag = "null" -> "nulls"
    [] value.tag = "str" -> "strings"
    [] value.tag = "num" -> "numbers"
    [] value.tag = "bool" -> "booleans"
    [] value.tag = "arr" -> "arrays"
    [] value.tag = "obj" -> "objects"

\* the type counter incremented without totalElements
CountTypeOnly(res, counter) ==
  [res EXCEPT !.typeCounts[counter] = @ + 1]

\* this.results.typeCounts.X++; this.results.totalElements++
Count(res, counter) ==
  [res EXCEPT !.typeCounts[counter] = @ + 1, !.totalElements = @ + 1]

\* if (depth > this.results.maxDepth) this.results.maxDepth = depth
RaiseMaxDepth(res, depth) ==
  [res EXCEPT !.maxDepth = IF depth > @ THEN depth ELSE @]

IsComposite(value) == value.tag \in {"arr", "obj"}

\* Object.keys(value) of a value that is not null
KeysOf(value) ==
  IF value.tag = "arr" THEN [i \in 1..Len(value.es) |-> Dec(i - 1)]
  ELSE IF value.tag = "obj" THEN value.ks
  ELSE IF value.tag = "str" THEN [i \in 1..Len(value.s) |-> Dec(i - 1)]
  ELSE <<>>

\* Object.values(value)
ValuesOf(value) ==
  IF value.tag = "arr" THEN value.es
  ELSE IF value.tag = "obj" THEN value.vs
  ELSE IF value.tag = "str" THEN [i \in 1..Len(value.s) |-> VStr(<<value.s[i]>>)]
  ELSE <<>>

\* `${key}[${index}]` and `${key}.${subKey}`
ChildPaths(key, value) ==
  IF value.tag = "arr"
  THEN [i \in 1..Len(value.es) |-> key \o <<"[">> \o Dec(i - 1) \o <<"]">>]
  ELSE [i \in 1..Len(value.ks) |-> key \o <<".">> \o value.ks[i]]

\* maxDepth = 10, the default of the option of parseLargeJSON
MaxDepthDefault == 10

\* the recursion descending one level too far
DescendAtCutoff(depth) == depth <= DepthCutoff

\* the recursion descending as far as the default of the maxDepth option
DescendToDefault(depth) == depth < MaxDepthDefault

\* if (depth < 5)
Descend(depth) == depth < DepthCutoff

\* a sample list that takes one value too many
HasRoomAtCap(samples) == Len(samples) <= SampleCap

\* structure[path].samples.length < 5
HasRoom(samples) == Len(samples) < SampleCap

\* value.substring(0, 50)
Sample(s) == SubSeq(s, 1, Min(Len(s), SampleLen))

\* the fields of structure[path] that the branch of the value's type sets
TypedEntry(entry, value) ==
  CASE value.tag = "null" -> [entry EXCEPT !.type = "null"]
    [] value.tag = "str" ->
         [entry EXCEPT !.type = "string",
                       !.samples = IF HasRoom(@) THEN Append(@, Sample(value.s)) ELSE @]
    [] value.tag = "num" -> [entry EXCEPT !.type = "number"]
    [] value.tag = "bool" -> [entry EXCEPT !.type = "boolean"]
    [] value.tag = "arr" -> [entry EXCEPT !.type = "array", !.length = Len(value.es)]
    [] value.tag = "obj" ->
         [entry EXCEPT !.type = "object",
                       !.properties = SubSeq(value.ks, 1, Min(Len(value.ks), PropertyCap)),
                       !.propertyCount = Len(value.ks)]

RECURSIVE analyzeValue(_, _, _, _, _), analyzeChildren(_, _, _, _, _, _)

\* value.forEach / keys.forEach: analyzeValue on the children from the i-th
\* on, in order, each call working on what the one before left
analyzeChildren(res, structure, paths, values, i, depth) ==
  IF i > Len(values)
  THEN [results |-> res, structure |-> structure]
  ELSE LET r == analyzeValue(res, structure, paths[i], values[i], depth)
       IN  analyzeChildren(r.results, r.structure, paths, values, i + 1, depth)

\* StreamingJSONParser.analyzeValue(key, value, structure, depth): this.results
\* and the structure object after the call
analyzeValue(res, structure, key, value, depth) ==
  LET r1 == RaiseMaxDepth(res, depth)
      path == key
      s1 == IF path \in DOMAIN structure THEN structure
            ELSE PutEntry(structure, path, UnknownEntry)
      counted == [s1[path] EXCEPT !.count = @ + 1]
      s2 == PutEntry(s1, path, TypedEntry(counted, value))
      r2 == Count(r1, CounterOf(value))
  IN  IF IsComposite(value) /\ Descend(depth)
      THEN analyzeChildren(r2, s2, ChildPaths(key, value), ValuesOf(value), 1, depth + 1)
      ELSE [results |-> r2, structure |-> s2]

RECURSIVE calculateMaxDepth(_, _)
\* StreamingJSONParser.calculateMaxDepth(obj, currentDepth)
calculateMaxDepth(obj, currentDepth) ==
  IF ~IsComposite(obj) THEN currentDepth
  ELSE LET values == ValuesOf(obj)
           deeper == { calculateMaxDepth(values[i], currentDepth + 1) :
                         i \in {j \in 1..Len(values) : IsComposite(values[j])} }
       IN  Max(deeper \cup {currentDepth})

\* StreamingJSONParser.getResults(); the quotient density is kept exact, as
\* numerator and denominator
getResults(res) ==
  [ success |-> TRUE,
    method |-> "streaming",
    topLevelKeys |-> res.topLevelKeys,
    structure |-> res.structure,
    stats |-> [ topLevelKeyCount |-> Len(res.topLevelKeys),
                maxDepth |-> res.maxDepth,
                totalElements |-> res.totalElements,
                typeDistribution |-> res.typeCounts ],
    complexity |-> [ depth |-> res.maxDepth,
                     breadth |-> Len(res.topLevelKeys),
                     density |-> [ num |-> res.typeCounts["objects"] + res.typeCounts["arrays"],
                                   den |-> 1 ] ] ]

\* the object the catch block of directParse returns
FailureReport == [success |-> FALSE, method |-> "direct"]

RECURSIVE analyzeCompleteStructure(_, _, _), analyzeCompleteChildren(_, _, _, _)

\* data.forEach / Object.keys(data).forEach
analyzeCompleteChildren(res, values, i, depth) ==
  IF i > Len(values) THEN res
  ELSE analyzeCompleteChildren(analyzeCompleteStructure(res, values[i], depth),
                               values, i + 1, depth)

\* FinalJSONParser.analyzeCompleteStructure(data, path, depth): this.results
\* after the call (path is passed on and never read)
analyzeCompleteStructure(res, value, depth) ==
  LET r2 == Count(RaiseMaxDepth(res, depth), CounterOf(value))
  IN  IF IsComposite(value)
      THEN analyzeCompleteChildren(r2, ValuesOf(value), 1, depth + 1)
      ELSE r2

\* the report FinalJSONParser.directParse returns; size is the size of the
\* file in bytes
FinalReport(res, value, size) ==
  [ success |-> TRUE,
    method |-> "direct",
    topLevelKeys |-> KeysOf(value),
    structure |-> res.structure,
    stats |-> [ maxDepth |-> res.maxDepth,
                totalElements |-> res.totalElements,
                typeDistribution |-> res.typeCounts ],
    complexity |-> [ depth |-> res.maxDepth,
                     breadth |-> Len(KeysOf(value)),
                     \* (objects + arrays) / (size / 1024), kept exact
                     density |-> [ num |-> (res.typeCounts["objects"] + res.typeCounts["arrays"])
                                             * 1024,
                                   den |-> size ] ] ]

(***************************************************************************)
(* The files given to directParse: what JSON.parse makes of the content,   *)
(* or ok = FALSE when it throws.                                           *)
(***************************************************************************)
\* runs of directParse on one StreamingJSONParser
MaxRuns == 4
\* runs of directParse on one FinalJSONParser
MaxFinalRuns == 2
\* levels of nesting in the deep document
MaxNest == 7

RECURSIVE Chain(_)
\* n composites nested in each other, arrays and objects in turn, around 1
Chain(n) ==
  IF n = 0 THEN VNum(1)
  ELSE IF n % 2 = 0 THEN VArr(<<Chain(n - 1)>>)
  ELSE VObj(<<<<"a">>>>, <<Chain(n - 1)>>)

Parsed(v) == [ok |-> TRUE, val |-> v]
Unparsable == [ok |-> FALSE, val |-> VNull]

\* fs.statSync(filePath).size of the file holding a document: the length of
\* its serialization
FileSize(d) == Len(JSONStringify(d.val, FALSE))

LongString == [i \in 1..(SampleLen + 1) |-> "x"]

\* {"a.b":"xx...x","b":[1,null,true,{}]}
DocTypes ==
  VObj(<<<<"a", ".", "b">>, <<"b">>>>,
       <<VStr(LongString), VArr(<<VNum(1), VNull, VBool(TRUE), VObj(<<>>, <<>>)>>)>>)
\* {"a":{"b":{"c":"1"},"b.c":"2"},"a.b":{"c":"3"},"a.b.c":"4"}: four values
\* at the path a.b.c
DocCollide ==
  VObj(<<<<"a">>, <<"a", ".", "b">>, <<"a", ".", "b", ".", "c">>>>,
       << VObj(<<<<"b">>, <<"b", ".", "c">>>>,
               <<VObj(<<<<"c">>>>, <<VStr(<<"1">>)>>), VStr(<<"2">>)>>),
          VObj(<<<<"c">>>>, <<VStr(<<"3">>)>>),
          VStr(<<"4">>) >>)
\* {"a": ... } nested MaxNest levels below the key
DocDeep == VObj(<<<<"a">>>>, <<Chain(MaxNest)>>)
\* ["z",[2]]
DocArray == VArr(<<VStr(<<"z">>), VArr(<<VNum(2)>>)>>)

ParsedDocs ==
  {Parsed(DocTypes), Parsed(DocCollide), Parsed(DocDeep), Parsed(DocArray),
   Parsed(VNull), Unparsable}

(***************************************************************************)
(* DeepStreamAnalyzer: this.stats and the recursive analyser.  JSONAnalyzer*)
(* and ComprehensiveStreamAnalyzer keep their statistics and run           *)
(* analyzeMultipleFiles the same way.  totalSize and processingTime, which *)
(* analyzeFile assigns from the file system and the clock, are left out.   *)
(***************************************************************************)
\* pathInfo.examples.length < 3
ExampleCap == 3

EmptyMap == [k \in {} |-> 0]

\* the object the constructor and resetStats assign to this.stats
FreshStats ==
  [ objects |-> 0, arrays |-> 0, strings |-> 0, numbers |-> 0, booleans |-> 0,
    nulls |-> 0, keyFrequency |-> EmptyMap, paths |-> EmptyMap, maxDepth |-> 0,
    totalKeys |-> 0 ]

\* DeepStreamAnalyzer.getValueType(value)
getValueType(value) ==
  CASE value.tag = "null" -> "null"
    [] value.tag = "arr" -> "array"
    [] value.tag = "obj" -> "object"
    [] value.tag = "str" -> "string"
    [] value.tag = "num" -> "number"
    [] value.tag = "bool" -> "boolean"

RECURSIVE Join(_)
\* currentPath.join('.')
Join(segments) ==
  IF segments = <<>> THEN <<>>
  ELSE IF Len(segments) = 1 THEN segments[1]
  ELSE segments[1] \o <<".">> \o Join(Tail(segments))

\* DeepStreamAnalyzer.updateTypeStats(type)
updateTypeStats(st, type) ==
  CASE type = "object" -> [st EXCEPT !.objects = @ + 1]
    [] type = "array" -> [st EXCEPT !.arrays = @ + 1]
    [] type = "string" -> [st EXCEPT !.strings = @ + 1]
    [] type = "number" -> [st EXCEPT !.numbers = @ + 1]
    [] type = "boolean" -> [st EXCEPT !.booleans = @ + 1]
    [] type = "null" -> [st EXCEPT !.nulls = @ + 1]

\* map.set(key, value)
MapSet(map, key, value) ==
  [k \in DOMAIN map \cup {key} |-> IF k = key THEN value ELSE map[k]]

\* DeepStreamAnalyzer.updatePathStats(pathStr, type, value)
updatePathStats(st, pathStr, type, value) ==
  LET pathInfo == IF pathStr \in DOMAIN st.paths THEN st.paths[pathStr]
                  ELSE [type |-> type, count |-> 0, examples |-> <<>>]
  IN  [st EXCEPT !.paths =
         MapSet(@, pathStr,
                [pathInfo EXCEPT !.count = @ + 1,
                                 !.examples = IF Len(@) < ExampleCap
                                              THEN Append(@, value) ELSE @])]

\* the segment a child adds to currentPath: the key, or `[${index}]`
ChildSegments(value) ==
  IF value.tag = "arr"
  THEN [i \in 1..Len(value.es) |-> <<"[">> \o Dec(i - 1) \o <<"]">>]
  ELSE value.ks

RECURSIVE deepAnalyzeValue(_, _, _), deepAnalyzeChildren(_, _, _, _)

\* Object.entries(value).forEach / value.forEach, from the i-th child on
deepAnalyzeChildren(st, value, currentPath, i) ==
  IF i > Len(ValuesOf(value)) THEN st
  ELSE LET counted ==
             IF value.tag = "obj"
             THEN [st EXCEPT !.keyFrequency =
                               MapSet(@, value.ks[i],
                                      (IF value.ks[i] \in DOMAIN @ THEN @[value.ks[i]] ELSE 0) + 1),
                             !.totalKeys = @ + 1]
             ELSE st
           newPath == Append(currentPath, ChildSegments(value)[i])
       IN  deepAnalyzeChildren(deepAnalyzeValue(counted, ValuesOf(value)[i], newPath),
                               value, currentPath, i + 1)

\* DeepStreamAnalyzer.deepAnalyzeValue(value, currentPath): this.stats after it
deepAnalyzeValue(st, value, currentPath) ==
  LET type == getValueType(value)
      pathStr == Join(currentPath)
      s1 == updatePathStats(updateTypeStats(st, type), pathStr, type, value)
      s2 == [s1 EXCEPT !.maxDepth = IF Len(currentPath) > @ THEN Len(currentPath) ELSE @]
  IN  IF IsComposite(value) THEN deepAnalyzeChildren(s2, value, currentPath, 1) ELSE s2

\* the figures DeepStreamAnalyzer.generateReport writes into the report text
generateReport(st) ==
  [ totalKeys |-> st.totalKeys,
    totalElements |-> st.objects + st.arrays + st.strings + st.numbers
                        + st.booleans + st.nulls,
    objects |-> st.objects, arrays |-> st.arrays, strings |-> st.strings,
    numbers |-> st.numbers, booleans |-> st.booleans, nulls |-> st.nulls,
    maxDepth |-> st.maxDepth,
    uniqueKeys |-> Cardinality(DOMAIN st.keyFrequency) ]

\* files given to one call of analyzeMultipleFiles
MaxFiles == 3

\* the single value StreamValues delivers from a file that parses
StreamedValues == {DocTypes, DocCollide, DocArray, VNum(7)}

(***************************************************************************)
(* StreamingJSONParser.parseLargeJSON: the character scan that collects    *)
(* the top-level objects of the stream, and processJSONObjects.            *)
(***************************************************************************)
\* the locals of parseLargeJSON before the first chunk arrives
CollectStart ==
  [ braceCount |-> 0, bracketCount |-> 0, inString |-> FALSE, escapeNext |-> FALSE,
    currentObject |-> <<>>, jsonObjects |-> <<>> ]

\* the body of the loop over the characters of a chunk
CollectChar(st, char) ==
  IF ~st.inString
  THEN LET counted ==
             IF char = "{" /\ ~st.escapeNext
             THEN [st EXCEPT !.currentObject =
                               IF st.braceCount = 0 /\ st.bracketCount = 0 THEN <<char>> ELSE @,
                             !.braceCount = @ + 1]
             ELSE IF char = "}" /\ ~st.escapeNext
             THEN IF st.braceCount - 1 = 0 /\ st.bracketCount = 0
                  THEN [st EXCEPT !.braceCount = @ - 1,
                                  !.jsonObjects =
                                    IF Len(st.currentObject) + 1 > 2
                                    THEN Append(@, Append(st.currentObject, char)) ELSE @,
                                  !.currentObject = <<>>]
                  ELSE [st EXCEPT !.braceCount = @ - 1, !.currentObject = Append(@, char)]
             ELSE IF char = "[" /\ ~st.escapeNext
             THEN [st EXCEPT !.bracketCount = @ + 1, !.currentObject = Append(@, char)]
             ELSE IF char = "]" /\ ~st.escapeNext
             THEN [st EXCEPT !.bracketCount = @ - 1, !.currentObject = Append(@, char)]
             ELSE [st EXCEPT !.currentObject = Append(@, char)]
       IN  [counted EXCEPT !.inString = IF char = QUOTE /\ ~st.escapeNext THEN TRUE ELSE @,
                           !.escapeNext = FALSE]
  ELSE [st EXCEPT !.inString = IF char = QUOTE /\ ~st.escapeNext THEN FALSE ELSE @,
                  !.escapeNext = (char = BSLASH /\ ~st.escapeNext),
                  !.currentObject = Append(@, char)]

RECURSIVE CollectFrom(_, _, _)
CollectFrom(st, text, i) ==
  IF i > Len(text) THEN st ELSE CollectFrom(CollectChar(st, text[i]), text, i + 1)

\* jsonObjects when the stream ends
CollectObjects(text) == CollectFrom(CollectStart, text, 1).jsonObjects

\* topLevelKeys.add(key), in a Set that keeps insertion order
SetAdd(keys, key) ==
  IF \E i \in 1..Len(keys) : keys[i] = key THEN keys ELSE Append(keys, key)

RECURSIVE AddAll(_, _, _)
AddAll(keys, more, i) ==
  IF i > Len(more) THEN keys ELSE AddAll(SetAdd(keys, more[i]), more, i + 1)

RECURSIVE processFrom(_, _, _)
\* the loop of processJSONObjects from the i-th fragment on; acc holds
\* this.results and the locals topLevelKeys and structure
processFrom(acc, jsonObjects, i) ==
  IF i > Len(jsonObjects) THEN acc
  ELSE LET parsed == JSONParse(jsonObjects[i])
       IN  IF parsed.ok /\ parsed.val.tag # "null"
           THEN LET r == analyzeChildren(acc.results, acc.structure, KeysOf(parsed.val),
                                         ValuesOf(parsed.val), 1, 0)
                IN  processFrom([results |-> r.results, structure |-> r.structure,
                                 topLevelKeys |-> AddAll(acc.topLevelKeys, KeysOf(parsed.val), 1)],
                                jsonObjects, i + 1)
           ELSE \* the catch block: the error is logged, the fragment is skipped
                processFrom(acc, jsonObjects, i + 1)

\* StreamingJSONParser.processJSONObjects(jsonObjects): this.results after it
processJSONObjects(res, jsonObjects) ==
  LET acc == processFrom([results |-> res, structure |-> EmptyStructure,
                          topLevelKeys |-> <<>>], jsonObjects, 1)
  IN  [acc.results EXCEPT !.topLevelKeys = acc.topLevelKeys, !.structure = acc.structure]

\* calls of parseLargeJSON on one StreamingJSONParser
MaxLargeRuns == 2

\* contents of the files given to parseLargeJSON
LargeTexts ==
  { DocScenario,
    \* {"a":1}
    <<"{", "\"", "a", "\"", ":", "1", "}">>,
    \* {"a":{"b":1}}
    <<"{", "\"", "a", "\"", ":", "{", "\"", "b", "\"", ":", "1", "}", "}">>,
    \* {"a":1}{"a":{"b":1}}
    <<"{", "\"", "a", "\"", ":", "1", "}",
      "{", "\"", "a", "\"", ":", "{", "\"", "b", "\"", ":", "1", "}", "}">>,
    \* {"a":"}"}{}
    <<"{", "\"", "a", "\"", ":", "\"", "}", "\"", "}", "{", "}">> }

(***************************************************************************)
(* State.                                                                  *)
(***************************************************************************)
VARIABLES
  file,        \* content of the file at filePath
  wpc,         \* writeJSONInChunks: "none" (not called), "start", "writing", "done"
  data,        \* its data argument
  append,      \* its options
  wChunkSize,
  wPretty,
  jsonString,  \* its local jsonString
  wPosition,   \* its local position
  writes,      \* history: the chunks its fileHandle.write calls have written, in order
  prior,       \* history: the content of the file before fs.open
  handles,     \* the file handles the calls have opened and not closed
  wError,      \* the error writeJSONInChunks has thrown, "none" if it has not
  wCallback,   \* TRUE when the options of the call hold a progress callback
  wCalls,      \* the calls writeJSONInChunks has made of that callback, in order
  wLogged,     \* the progress values it has logged, in order
  rpc,         \* readJSONInChunks: "idle", "reading" (suspended at a yield), "done"
  chunkSize,   \* its options
  pretty,
  progressCallback,  \* TRUE when a callback is supplied
  content,     \* its local content
  position,    \* its local position
  items,       \* the items it has yielded, in order
  calls,       \* the calls of progressCallback, in order: the arguments, and
               \* (history) the number of items yielded before the call
  steps,       \* history: for each item the branch that yielded it and its source range
  readFault,   \* the error fs.readFile rejected with, "none" if it has not
  rError,      \* the error readJSONInChunks has thrown, "none" if it has not
  parser,      \* the analyser instance: "none", "streaming" (a StreamingJSONParser used
               \* through directParse), "large" (one used through parseLargeJSON),
               \* "final" (FinalJSONParser), "deep" (DeepStreamAnalyzer)
  results,     \* its this.results
  docs,        \* history: the inputs of its directParse calls, in order
  reports,     \* the report objects its directParse calls returned, as they are now
  returned,    \* history: each report as it was when it was returned
  stats,       \* DeepStreamAnalyzer: this.stats
  fileResults, \* analyzeMultipleFiles: its local results
  started,     \* history: for each call of analyzeFile this.stats before and after
               \* it, and the values analysed since this.stats was last assigned
  sinceReset,  \* history: the values analysed since this.stats was last assigned
  largeRuns,   \* history: for each parseLargeJSON call the fragments it collected,
               \* this.results before it and the report it resolved with
  other,       \* the locals of a second readJSONInChunks generator
  scan,        \* the last call of a scanner on its own: its name, its position
               \* argument, its result and the values its depth counter took
  nav,         \* the last call of navigateData: its arguments and its result
  stream,     \* a call of parseLargeJSON: its options, the stream, the scanner, the promise
  chunking,   \* the last call of FinalJSONParser.createChunks
  merger,     \* the JsonMerger and its last call of mergeJsonFiles
  shell,      \* the InteractiveJSONBrowser and its last cd command
  second       \* the locals of a second writeJSONInChunks call, and (history) the
               \* number of writes the first call had made at each of its writes

wvars == <<wpc, data, append, wChunkSize, wPretty, jsonString, wPosition, writes, prior,
           handles, wError, wCallback, wCalls, wLogged>>
rvars == <<rpc, chunkSize, pretty, progressCallback, content, position, items, calls, steps,
           readFault, rError>>
avars == <<parser, results, docs, reports, returned>>
dvars == <<stats, fileResults, started, sinceReset>>
xvars == <<largeRuns, other, second, scan, nav, stream, chunking, merger, shell>>
vars == <<file, wvars, rvars, avars, dvars, xvars>>

ReaderIdle ==
  /\ rpc = "idle"
  /\ chunkSize = 0
  /\ pretty = FALSE
  /\ progressCallback = FALSE
  /\ content = <<>>
  /\ position = 0
  /\ items = <<>>
  /\ calls = <<>>
  /\ steps = <<>>
  /\ readFault = "none"
  /\ rError = "none"

WriterFresh ==
  /\ append = FALSE
  /\ wChunkSize = 0
  /\ wPretty = FALSE
  /\ jsonString = <<>>
  /\ wPosition = 0
  /\ writes = <<>>
  /\ handles = {}
  /\ wError = "none"
  /\ wCallback = FALSE
  /\ wCalls = <<>>
  /\ wLogged = <<>>

\* the locals of the second generator before its first pull
OtherIdle ==
  [rpc |-> "idle", chunkSize |-> 0, pretty |-> FALSE, content |-> <<>>, position |-> 0,
   items |-> <<>>]

\* the locals of the second writeJSONInChunks call before it is made
SecondIdle ==
  [wpc |-> "idle", chunkSize |-> 0, jsonString |-> <<>>, position |-> 0, seen |-> <<>>]

\* no call of navigateData yet
NoNav == [called |-> FALSE, data |-> VNull, path |-> <<>>, result |-> VNull]

\* parseLargeJSON has not been called
NoStream ==
  [ phase |-> "idle", text |-> <<>>, maxDepth |-> 0, maxSamples |-> 0, processedSize |-> 0,
    st |-> CollectStart, promise |-> "none", report |-> [success |-> FALSE], error |-> "none" ]

\* no scanner has been called on its own
NoScan == [fn |-> "none", position |-> 0, result |-> -1, depths |-> <<>>]

\* createChunks before any call
NoChunking == [called |-> FALSE, content |-> <<>>, maxChunkSize |-> 0, chunks |-> <<>>]

\* a JsonMerger after its constructor
NewMerger ==
  [ stats |-> [totalFiles |-> 0, successful |-> 0, failed |-> 0, skipped |-> 0],
    calls |-> 0,
    valid |-> {}, invalid |-> {}, lost |-> {},
    mergedData |-> <<>>,
    threw |-> FALSE ]

\* an InteractiveJSONBrowser after start, before any cd
NewShell ==
  [ currentPath |-> <<>>, count |-> 0, before |-> <<>>, targetPath |-> <<>>,
    moved |-> <<>>, threw |-> FALSE, data |-> VNull ]

\* no analyser has been constructed
AnalyserIdle ==
  /\ parser = "none"
  /\ results = FreshResults
  /\ docs = <<>>
  /\ reports = <<>>
  /\ returned = <<>>
  /\ stats = FreshStats
  /\ fileResults = <<>>
  /\ started = <<>>
  /\ sinceReset = <<>>
  /\ largeRuns = <<>>
  /\ other = OtherIdle
  /\ second = SecondIdle
  /\ scan = NoScan
  /\ nav = NoNav
  /\ stream = NoStream
  /\ chunking = NoChunking
  /\ merger = NewMerger
  /\ shell = NewShell

\* either a file that exists is read, or a value is written and read back
Init ==
  /\ ReaderIdle
  /\ WriterFresh
  /\ AnalyserIdle
  /\ \/ /\ wpc = "none"
        /\ data = VNull
        /\ file \in Docs
     \/ /\ wpc = "start"
        /\ data \in WriteValues
        /\ file \in PriorFiles
  /\ prior = file

(***************************************************************************)
(* writeJSONInChunks.                                                      *)
(***************************************************************************)
\* fileHandle.write(chunk) at offset off of a handle opened with flag "w"
WriteAt(f, off, chunk) ==
  LET padded == IF Len(f) < off THEN f \o [i \in 1..(off - Len(f)) |-> NUL] ELSE f
  IN  SubSeq(padded, 1, off) \o chunk \o SubSeq(padded, off + Len(chunk) + 1, Len(padded))

\* the errors a file operation can reject with
IOErrors == {"EACCES", "ENOSPC"}

\* the content fs.open leaves in the file without truncating it, whatever the flag
OpenedKeeping(f, a) == f

\* fs.open(filePath, flag): flag "a" keeps the content, flag "w" truncates it
Opened(f, a) == IF a THEN f ELSE <<>>

\* every write landing at the start of the file
WrittenAtStart(f, a, off, chunk) == IF a THEN f \o chunk ELSE WriteAt(f, 0, chunk)

\* await fileHandle.write(chunk): a handle opened with flag "a" writes at the
\* end of the file, one opened with flag "w" at its own offset
Written(f, a, off, chunk) == IF a THEN f \o chunk ELSE WriteAt(f, off, chunk)

\* up to fs.open: the options are read, the data is serialized, the file opened
WriteOpen ==
  \E a \in BOOLEAN, cs \in 1..MaxWriteChunk, p \in BOOLEAN, wcb \in BOOLEAN :
    /\ wpc = "start"
    /\ append' = a
    /\ wChunkSize' = cs
    /\ wPretty' = p
    /\ wCallback' = wcb
    /\ jsonString' = JSONStringify(data, p)
    /\ file' = Opened(file, a)
    /\ wPosition' = 0
    /\ handles' = handles \cup {"fileHandle"}
    /\ wpc' = "writing"
    /\ UNCHANGED <<wCalls, wLogged,
                 data, writes, prior, wError, rvars, avars, dvars, xvars>>

\* fs.open rejects: the catch block logs the error and throws it
WriteOpenFails ==
  \E a \in BOOLEAN, cs \in 1..MaxWriteChunk, p \in BOOLEAN, wcb \in BOOLEAN, err \in IOErrors :
    /\ wpc = "start"
    /\ append' = a
    /\ wChunkSize' = cs
    /\ wPretty' = p
    /\ wCallback' = wcb
    /\ jsonString' = JSONStringify(data, p)
    /\ wError' = err
    /\ wpc' = "failed"
    /\ UNCHANGED <<wCalls, wLogged,
                 file, data, wPosition, writes, prior, handles, rvars, avars, dvars, xvars>>

\* between fileHandle.write and the end of the loop body: the progress is
\* computed and logged; the options are read for append, chunkSize and pretty
\* only, and nothing is called
AfterWrite(callback, pos, totalLength) == <<>>

\* one iteration of the while loop
WriteChunk ==
  /\ wpc = "writing"
  /\ wPosition < Len(jsonString)
  /\ LET endPosition == Min(wPosition + wChunkSize, Len(jsonString))
         chunk == Slice(jsonString, wPosition, endPosition)
     IN  /\ file' = Written(file, append, wPosition, chunk)
         /\ writes' = Append(writes, chunk)
         /\ wPosition' = endPosition
         /\ wLogged' = Append(wLogged, Progress(endPosition, Len(jsonString)))
         /\ wCalls' = wCalls \o AfterWrite(wCallback, endPosition, Len(jsonString))
  /\ UNCHANGED <<wCallback,
                 wpc, data, append, wChunkSize, wPretty, jsonString, prior, handles, wError,
                 rvars, avars, dvars, xvars>>

\* fileHandle.write rejects after writing only part of the chunk (possibly
\* nothing): the catch block logs the error and throws it; nothing closes
\* fileHandle
WriteChunkFails ==
  \E err \in IOErrors, n \in 0..(MaxWriteChunk - 1) :
    /\ wpc = "writing"
    /\ wPosition < Len(jsonString)
    /\ LET endPosition == Min(wPosition + wChunkSize, Len(jsonString))
           chunk == Slice(jsonString, wPosition, endPosition)
       IN  /\ n < Len(chunk)
           /\ file' = Written(file, append, wPosition, SubSeq(chunk, 1, n))
    /\ wError' = err
    /\ wpc' = "failed"
    /\ UNCHANGED <<wCallback, wCalls, wLogged,
                 data, append, wChunkSize, wPretty, jsonString, wPosition, writes, prior,
                   handles, rvars, avars, dvars, xvars>>

\* the loop ends, fileHandle.close
WriteClose ==
  /\ wpc = "writing"
  /\ wPosition >= Len(jsonString)
  /\ handles' = handles \ {"fileHandle"}
  /\ wpc' = "done"
  /\ UNCHANGED <<wCallback, wCalls, wLogged,
                 file, data, append, wChunkSize, wPretty, jsonString, wPosition, writes, prior,
                 wError, rvars, avars, dvars, xvars>>

(***************************************************************************)
(* readJSONInChunks.                                                       *)
(***************************************************************************)
\* the window one character short
WindowEndShort(pos, size, totalLength) == Min(pos + size - 1, totalLength)

\* const endPosition = Math.min(position + chunkSize, totalLength)
WindowEnd(pos, size, totalLength) == Min(pos + size, totalLength)

\* the fallback advancing one character short
FallbackPositionShort(pos, size) == pos + size - 1

\* position += chunkSize
FallbackPosition(pos, size) == pos + size

\* One iteration of the while loop, from its head to the yield: the item
\* yielded, the position after the step, and for the history the branch taken
\* ("valid" for the validated branch, "fallback" otherwise), whether both
\* scans found a bracket, and the range [lo, hi) of content the chunk is cut
\* from.
ReadIteration(text, pos, size, fmt) ==
  LET totalLength == Len(text)
      endPosition == WindowEnd(pos, size, totalLength)
      raw == Slice(text, pos, endPosition)
      startIndex == findPreviousBracket(text, pos)
      endIndex == findNextBracket(text, endPosition)
      found == startIndex # -1 /\ endIndex # -1
      wide == Slice(text, startIndex, endIndex)
      isValidJSON == found /\ validateJSONSnippet(wide)
      after == IF isValidJSON THEN endIndex ELSE FallbackPosition(pos, size)
  IN  [ item |-> [ chunk |-> IF isValidJSON
                             THEN (IF fmt THEN formatJSONChunk(wide) ELSE wide)
                             ELSE (IF found THEN wide ELSE raw),
                   position |-> IF isValidJSON THEN startIndex ELSE after,
                   progress |-> Progress(after, totalLength) ],
        after |-> after,
        step |-> [ branch |-> IF isValidJSON THEN "valid" ELSE "fallback",
                   found |-> found,
                   lo |-> IF found THEN startIndex ELSE pos,
                   hi |-> IF found THEN endIndex ELSE endPosition,
                   before |-> pos,
                   after |-> after ] ]

\* the first pull up to fs.readFile: the options are read, the file is read
ReadOpen ==
  \E cs \in 1..MaxChunk, p \in BOOLEAN, cb \in BOOLEAN :
    /\ rpc = "idle"
    /\ wpc \in {"none", "done"}
    /\ chunkSize' = cs
    /\ pretty' = p
    /\ progressCallback' = cb
    /\ content' = file
    /\ position' = 0
    /\ rpc' = "reading"
    /\ UNCHANGED <<file, wvars, avars, dvars, items, calls, steps, readFault, rError, xvars>>

\* the error thrown in place of the one caught
Replaced(error) == "Error"

\* catch (error) { console.error(...); throw error; }
Rethrown(error) == error

\* the first pull when fs.readFile rejects: the catch block logs the error and
\* throws it
ReadFails ==
  \E cs \in 1..MaxChunk, p \in BOOLEAN, cb \in BOOLEAN, err \in IOErrors :
    /\ rpc = "idle"
    /\ wpc \in {"none", "done"}
    /\ chunkSize' = cs
    /\ pretty' = p
    /\ progressCallback' = cb
    /\ readFault' = err
    /\ rError' = Rethrown(err)
    /\ rpc' = "failed"
    /\ UNCHANGED <<file, wvars, avars, dvars, content, position, items, calls, steps, xvars>>

\* the arguments of a call made before position is assigned
CalledBeforeAdvance(before, after, totalLength) == <<before, totalLength>>

\* progressCallback(position, totalLength), after position is assigned
Called(before, after, totalLength) == <<after, totalLength>>

\* a pull that runs one iteration of the loop and suspends at its yield
ReadStep ==
  /\ rpc = "reading"
  /\ position < Len(content)
  /\ LET r == ReadIteration(content, position, chunkSize, pretty)
     IN  /\ position' = r.after
         /\ calls' = IF progressCallback
                     THEN Append(calls, [args |-> Called(position, r.after, Len(content)),
                                         yielded |-> Len(items)])
                     ELSE calls
         /\ items' = Append(items, r.item)
         /\ steps' = Append(steps, r.step)
  /\ UNCHANGED <<file, wvars, avars, dvars, rpc, chunkSize, pretty, progressCallback, content,
                 readFault, rError, xvars>>

\* the pull that finds position >= totalLength: the generator returns
ReadEnd ==
  /\ rpc = "reading"
  /\ position >= Len(content)
  /\ rpc' = "done"
  /\ UNCHANGED <<file, wvars, avars, dvars, chunkSize, pretty, progressCallback, content, position,
                 items, calls, steps, readFault, rError, xvars>>

\* the consumer stops pulling after an item (break in for await): the
\* generator returns at the yield it is suspended at
ReadStop ==
  /\ rpc = "reading"
  /\ items # <<>>
  /\ rpc' = "stopped"
  /\ UNCHANGED <<file, wvars, avars, dvars, chunkSize, pretty, progressCallback, content, position,
                 items, calls, steps, readFault, rError, xvars>>

Next ==
  \/ WriteOpen \/ WriteOpenFails \/ WriteChunk \/ WriteChunkFails \/ WriteClose
  \/ ReadOpen \/ ReadFails \/ ReadStep \/ ReadEnd \/ ReadStop

Spec == Init /\ [][Next]_vars

(***************************************************************************)
(* Two readJSONInChunks generators over the same file.  The first is the   *)
(* generator of ReadOpen, ReadStep and ReadEnd; other holds the locals of  *)
(* the second.  The handler object holds only the default chunkSize, which *)
(* no call assigns.                                                        *)
(***************************************************************************)
\* a position kept in the handler and used by every generator
SharedPosition(own, others) == others

\* let position = 0: a local of the generator
LocalPosition(own, others) == own

OtherOpen ==
  \E cs \in 1..MaxChunk, p \in BOOLEAN :
    /\ other.rpc = "idle"
    /\ other' = [other EXCEPT !.rpc = "reading", !.chunkSize = cs, !.pretty = p,
                              !.content = file, !.position = 0]
    /\ UNCHANGED <<file, wvars, rvars, avars, dvars, largeRuns, second, scan, nav, stream, chunking,
                   merger, shell>>

OtherStep ==
  /\ other.rpc = "reading"
  /\ LocalPosition(other.position, position) < Len(other.content)
  /\ LET r == ReadIteration(other.content, LocalPosition(other.position, position),
                            other.chunkSize, other.pretty)
     IN  other' = [other EXCEPT !.position = r.after, !.items = Append(@, r.item)]
  /\ UNCHANGED <<file, wvars, rvars, avars, dvars, largeRuns, second, scan, nav, stream, chunking,
                   merger, shell>>

OtherEnd ==
  /\ other.rpc = "reading"
  /\ LocalPosition(other.position, position) >= Len(other.content)
  /\ other' = [other EXCEPT !.rpc = "done"]
  /\ UNCHANGED <<file, wvars, rvars, avars, dvars, largeRuns, second, scan, nav, stream, chunking,
                   merger, shell>>

\* a file that exists and is read by both generators
InitReaders ==
  /\ ReaderIdle
  /\ WriterFresh
  /\ AnalyserIdle
  /\ wpc = "none"
  /\ data = VNull
  /\ file \in ScenarioDocs
  /\ prior = file

NextReaders == ReadOpen \/ ReadStep \/ ReadEnd \/ OtherOpen \/ OtherStep \/ OtherEnd

SpecReaders == InitReaders /\ [][NextReaders]_vars

(***************************************************************************)
(* Two writeJSONInChunks calls on the same path.  The first is the call of *)
(* WriteOpen, WriteChunk and WriteClose; second holds the locals of the    *)
(* other, which is called with append = false.  Each call has a file       *)
(* handle of its own, and a handle opened with flag "w" writes at its own  *)
(* offset.                                                                 *)
(***************************************************************************)
\* the data given to the first call
FirstValues == {VStr(<<"a", QUOTE>>), VArr(<<VNum(1), VNum(2), VNum(3)>>)}

\* the data given to the second call
SecondValues == {VNum(12), VArr(<<>>)}

SecondOpen ==
  \E v \in SecondValues, cs \in 1..MaxWriteChunk, p \in BOOLEAN :
    /\ second.wpc = "idle"
    /\ second' = [second EXCEPT !.wpc = "writing", !.chunkSize = cs,
                                !.jsonString = JSONStringify(v, p), !.position = 0]
    /\ file' = Opened(file, FALSE)
    /\ handles' = handles \cup {"second"}
    /\ UNCHANGED <<wCallback, wCalls, wLogged,
                 wpc, data, append, wChunkSize, wPretty, jsonString, wPosition, writes,
                   prior, wError, rvars, avars, dvars, largeRuns, other, scan, nav, stream,
                   chunking, merger, shell>>

SecondChunk ==
  /\ second.wpc = "writing"
  /\ second.position < Len(second.jsonString)
  /\ LET endPosition == Min(second.position + second.chunkSize, Len(second.jsonString))
         chunk == Slice(second.jsonString, second.position, endPosition)
     IN  /\ file' = Written(file, FALSE, second.position, chunk)
         /\ second' = [second EXCEPT !.position = endPosition,
                                     !.seen = Append(@, Len(writes))]
  /\ UNCHANGED <<wvars, rvars, avars, dvars, largeRuns, other, scan, nav, stream, chunking, merger,
                   shell>>

SecondClose ==
  /\ second.wpc = "writing"
  /\ second.position >= Len(second.jsonString)
  /\ handles' = handles \ {"second"}
  /\ second' = [second EXCEPT !.wpc = "done"]
  /\ UNCHANGED <<wCallback, wCalls, wLogged,
                 file, wpc, data, append, wChunkSize, wPretty, jsonString, wPosition, writes,
                 prior, wError, rvars, avars, dvars, largeRuns, other, scan, nav, stream, chunking,
                 merger, shell>>

InitWriters ==
  /\ ReaderIdle
  /\ WriterFresh
  /\ AnalyserIdle
  /\ wpc = "start"
  /\ data \in FirstValues
  /\ file \in PriorFiles
  /\ prior = file

NextWriters == WriteOpen \/ WriteChunk \/ WriteClose \/ SecondOpen \/ SecondChunk \/ SecondClose

SpecWriters == InitWriters /\ [][NextWriters]_vars

(***************************************************************************)
(* findPreviousBracket and findNextBracket called on their own, on any     *)
(* text and from any position.                                             *)
(***************************************************************************)
MaxScanLen == 4

ScanChars == {"[", "]", "{", "}", "a", QUOTE}

\* the texts given to the scanners
ScanTexts == UNION {[1..n -> ScanChars] : n \in 0..MaxScanLen}

\* the values depth takes in the loop of findPreviousBracket from index i
\* down, one for each iteration that assigns it
RECURSIVE PrevDepths(_, _, _)
PrevDepths(text, i, depth) ==
  IF i < 0 THEN <<>>
  ELSE IF i >= Len(text) THEN PrevDepths(text, i - 1, depth)
  ELSE IF IsOpen(At(text, i))
       THEN IF depth = 0 THEN <<>> ELSE <<depth - 1>> \o PrevDepths(text, i - 1, depth - 1)
  ELSE IF IsClose(At(text, i)) THEN <<depth + 1>> \o PrevDepths(text, i - 1, depth + 1)
  ELSE PrevDepths(text, i - 1, depth)

\* the values depth takes in the loop of findNextBracket from index i up
RECURSIVE NextDepths(_, _, _)
NextDepths(text, i, depth) ==
  IF i >= Len(text) THEN <<>>
  ELSE IF IsOpen(At(text, i)) THEN <<depth + 1>> \o NextDepths(text, i + 1, depth + 1)
  ELSE IF IsClose(At(text, i))
       THEN IF depth - 1 = 0 THEN <<0>> ELSE <<depth - 1>> \o NextDepths(text, i + 1, depth - 1)
  ELSE NextDepths(text, i + 1, depth)

ScanPrevious ==
  \E a \in 0..Len(file) :
    /\ scan' = [fn |-> "findPreviousBracket", position |-> a,
                result |-> findPreviousBracket(file, a), depths |-> PrevDepths(file, a, 0)]
    /\ UNCHANGED <<file, wvars, rvars, avars, dvars, largeRuns, other, second, nav, stream, chunking,
                   merger, shell>>

ScanNext ==
  \E a \in 0..Len(file) :
    /\ scan' = [fn |-> "findNextBracket", position |-> a,
                result |-> findNextBracket(file, a), depths |-> NextDepths(file, a, 0)]
    /\ UNCHANGED <<file, wvars, rvars, avars, dvars, largeRuns, other, second, nav, stream, chunking,
                   merger, shell>>

InitScanners ==
  /\ ReaderIdle
  /\ WriterFresh
  /\ AnalyserIdle
  /\ wpc = "none"
  /\ data = VNull
  /\ file \in ScanTexts
  /\ prior = file

NextScanners == ScanPrevious \/ ScanNext

SpecScanners == InitScanners /\ [][NextScanners]_vars

(***************************************************************************)
(* JSONStructureBrowser.navigateData.  undefined of JavaScript is a value  *)
(* with tag "undefined".                                                   *)
(***************************************************************************)
VUndefined == [tag |-> "undefined"]

\* path.split('.') of a non-empty string
RECURSIVE SplitDots(_)
SplitDots(path) ==
  IF \E i \in 1..Len(path) : path[i] = "."
  THEN LET dot == CHOOSE i \in 1..Len(path) :
                    path[i] = "." /\ \A j \in 1..(i - 1) : path[j] # "."
       IN  <<SubSeq(path, 1, dot - 1)>> \o SplitDots(SubSeq(path, dot + 1, Len(path)))
  ELSE <<path>>

\* part.match(/([^\[]+)(\[(\d+)\])?/): the first run of characters other
\* than "[" is the key; digits in brackets right after it are the index;
\* index is -1 for null
MatchPart(part) ==
  LET starts == {i \in 1..Len(part) : part[i] # "["}
  IN  IF starts = {} THEN [key |-> part, index |-> -1]
      ELSE LET s == CHOOSE i \in starts : \A j \in starts : i <= j
               e == CHOOSE j \in s..Len(part) :
                      /\ \A n \in s..j : part[n] # "["
                      /\ j = Len(part) \/ part[j + 1] = "["
               rest == SubSeq(part, e + 1, Len(part))
               closes == {n \in 3..Len(rest) :
                            /\ rest[n] = "]"
                            /\ \A d \in 2..(n - 1) : IsDigit(rest[d])}
           IN  [ key |-> SubSeq(part, s, e),
                 index |-> IF closes = {} THEN -1
                           ELSE LET n == CHOOSE c \in closes : TRUE
                                IN  DecVal(SubSeq(rest, 2, n - 1)) ]

\* current[part.index] of an array
ElementOf(current, index) ==
  IF index < Len(current.es) THEN current.es[index + 1] ELSE VUndefined

\* current[part.key] of an object that is no array
PropertyOf(current, key) ==
  IF \E p \in 1..Len(current.ks) : current.ks[p] = key
  THEN current.vs[CHOOSE p \in 1..Len(current.ks) : current.ks[p] = key]
  ELSE VUndefined

\* the loop over pathParts
RECURSIVE NavigateFrom(_, _, _)
NavigateFrom(current, pathParts, i) ==
  IF i > Len(pathParts) THEN current
  ELSE LET part == pathParts[i]
       IN  IF part.index # -1
           THEN IF current.tag = "arr"
                THEN NavigateFrom(ElementOf(current, part.index), pathParts, i + 1)
                ELSE VNull
           ELSE IF current.tag = "obj"
                THEN NavigateFrom(PropertyOf(current, part.key), pathParts, i + 1)
                ELSE VNull

navigateData(d, path) ==
  IF path = <<>> THEN d
  ELSE LET parts == SplitDots(path)
       IN  NavigateFrom(d, [i \in 1..Len(parts) |-> MatchPart(parts[i])], 1)

\* the largest index and the largest number of parts of a path
MaxIndex == 1
MaxParts == 2

NavNames == {<<"a">>, <<"b">>, <<"k">>}

\* k[i]
Indexed(k, i) == k \o <<"[">> \o Dec(i) \o <<"]">>

NavParts == NavNames \cup {Indexed(k, i) : k \in NavNames, i \in 0..MaxIndex}

RECURSIVE Dotted(_)
Dotted(parts) ==
  IF Len(parts) = 1 THEN parts[1] ELSE parts[1] \o <<".">> \o Dotted(Tail(parts))

\* the paths given to navigateData
NavPaths ==
  {<<>>} \cup {Dotted(parts) : parts \in UNION {[1..n -> NavParts] : n \in 1..MaxParts}}

\* {"a":{"b":1,"k":[5,6]},"k":[{"b":2},7],"b":"s"}
NavObject ==
  VObj(<<<<"a">>, <<"k">>, <<"b">>>>,
       << VObj(<<<<"b">>, <<"k">>>>, <<VNum(1), VArr(<<VNum(5), VNum(6)>>)>>),
          VArr(<<VObj(<<<<"b">>>>, <<VNum(2)>>), VNum(7)>>),
          VStr(<<"s">>) >>)

\* [[1,2],{"a":3}]
NavArray == VArr(<<VArr(<<VNum(1), VNum(2)>>), VObj(<<<<"a">>>>, <<VNum(3)>>)>>)

\* the data given to navigateData
NavData == {NavObject, NavArray, VNum(1)}

Navigate ==
  \E d \in NavData, path \in NavPaths :
    /\ nav' = [called |-> TRUE, data |-> d, path |-> path, result |-> navigateData(d, path)]
    /\ UNCHANGED <<file, wvars, rvars, avars, dvars, largeRuns, other, second, scan, stream, chunking,
                   merger, shell>>

InitBrowser ==
  /\ ReaderIdle
  /\ WriterFresh
  /\ AnalyserIdle
  /\ wpc = "none"
  /\ data = VNull
  /\ file = <<>>
  /\ prior = file

NextBrowser == Navigate

SpecBrowser == InitBrowser /\ [][NextBrowser]_vars

(***************************************************************************)
(* StreamingJSONParser.parseLargeJSON, event by event: the read stream     *)
(* delivers the text in chunks to the data handler, then end or error.     *)
(***************************************************************************)
\* the longest chunk of a data event
MaxStreamChunk == 3

\* the maxDepth and maxSamples options of a call; StreamingParserTester.testFile
\* passes maxDepth 5
MaxDepthOptions == {1, 5, MaxDepthDefault}
MaxSamplesOptions == {1, 1000}

\* {"a":"}"}
TextBraceInString == <<"{", QUOTE, "a", QUOTE, ":", QUOTE, "}", QUOTE, "}">>
\* {"a":"\"{"}
TextEscapedQuote == <<"{", QUOTE, "a", QUOTE, ":", QUOTE, BSLASH, QUOTE, "{", QUOTE, "}">>
\* {"a":"\\","b":"["}
TextBackslash ==
  <<"{", QUOTE, "a", QUOTE, ":", QUOTE, BSLASH, BSLASH, QUOTE, ",",
    QUOTE, "b", QUOTE, ":", QUOTE, "[", QUOTE, "}">>
\* {"a":1}{"b":2}
TextTwoObjects ==
  <<"{", QUOTE, "a", QUOTE, ":", "1", "}", "{", QUOTE, "b", QUOTE, ":", "2", "}">>
\* {"a":[[[[[[[1]]]]]]]}
TextDeepArrays ==
  <<"{", QUOTE, "a", QUOTE, ":">> \o [i \in 1..7 |-> "["] \o <<"1">> \o [i \in 1..7 |-> "]"]
    \o <<"}">>
\* {"a":{"b":1}}
TextNestedObject ==
  <<"{", QUOTE, "a", QUOTE, ":", "{", QUOTE, "b", QUOTE, ":", "1", "}", "}">>

\* the contents of the file at filePath
StreamTexts ==
  {TextBraceInString, TextEscapedQuote, TextBackslash, TextTwoObjects, TextDeepArrays,
   TextNestedObject}

\* the scanner variables declared anew in the data handler
ResetPerChunk(st) == [st EXCEPT !.inString = FALSE, !.escapeNext = FALSE]

\* the scanner variables are declared outside the data handler and keep
\* their values from one chunk to the next
KeptAcrossChunks(st) == st

\* the call up to the creation of the stream
StreamOpen ==
  \E text \in StreamTexts, depthOption \in MaxDepthOptions, samples \in MaxSamplesOptions :
    /\ stream.phase = "idle"
    /\ stream' = [stream EXCEPT !.phase = "flowing", !.text = text, !.maxDepth = depthOption,
                                !.maxSamples = samples, !.promise = "pending"]
    /\ UNCHANGED <<file, wvars, rvars, avars, dvars, largeRuns, other, second, scan, nav, chunking,
                   merger, shell>>

\* a data event: the handler scans the chunk, and destroys the stream when
\* maxSamples fragments have been collected
StreamData ==
  \E n \in 1..MaxStreamChunk :
    /\ stream.phase = "flowing"
    /\ stream.processedSize < Len(stream.text)
    /\ LET chunk == Slice(stream.text, stream.processedSize, stream.processedSize + n)
           st == CollectFrom(KeptAcrossChunks(stream.st), chunk, 1)
       IN  stream' = [stream EXCEPT
                        !.processedSize = @ + Len(chunk),
                        !.st = st,
                        !.phase = IF Len(st.jsonObjects) >= stream.maxSamples
                                  THEN "destroyed" ELSE @]
    /\ UNCHANGED <<file, wvars, rvars, avars, dvars, largeRuns, other, second, scan, nav, chunking,
                   merger, shell>>

\* the end event: processJSONObjects, resolve(this.getResults())
StreamEnd ==
  /\ stream.phase = "flowing"
  /\ stream.processedSize >= Len(stream.text)
  /\ LET after == processJSONObjects(results, stream.st.jsonObjects)
     IN  /\ results' = after
         /\ stream' = [stream EXCEPT !.phase = "ended", !.promise = "resolved",
                                     !.report = getResults(after)]
  /\ UNCHANGED <<file, wvars, rvars, parser, docs, reports, returned, dvars, largeRuns, other,
                 second, scan, nav, chunking, merger, shell>>

\* the error event: reject(error)
StreamError ==
  \E err \in IOErrors :
    /\ stream.phase = "flowing"
    /\ stream' = [stream EXCEPT !.phase = "failed", !.promise = "rejected", !.error = err]
    /\ UNCHANGED <<file, wvars, rvars, avars, dvars, largeRuns, other, second, scan, nav, chunking,
                   merger, shell>>

InitStream ==
  /\ ReaderIdle
  /\ WriterFresh
  /\ AnalyserIdle
  /\ wpc = "none"
  /\ data = VNull
  /\ file = <<>>
  /\ prior = file

NextStream == StreamOpen \/ StreamData \/ StreamEnd \/ StreamError

SpecStream == InitStream /\ [][NextStream]_vars

(***************************************************************************)
(* FinalJSONParser.createChunks and findJsonObjectEnd.                     *)
(***************************************************************************)
\* if (chunks.length >= 50)
ChunkCap == 50

\* the longest enumerated content and the largest maxChunkSize of a call
MaxContentLen == 3
MaxChunkSizeOption == 4

ContentChars == {"{", "}", QUOTE, "a"}

\* a content that needs more than ChunkCap chunks of one character
LongContent == Elements(<<"a">>, ChunkCap + 1)

Contents ==
  UNION {[1..n -> ContentChars] : n \in 0..MaxContentLen} \cup StreamTexts \cup {LongContent}

\* the loop of findJsonObjectEnd from offset i on
RECURSIVE FindEndFrom(_, _, _, _, _)
FindEndFrom(text, i, braceCount, inString, escapeNext) ==
  IF i >= Len(text) THEN -1
  ELSE LET char == At(text, i)
       IN  IF ~inString
           THEN IF char = "{"
                THEN FindEndFrom(text, i + 1, braceCount + 1, FALSE, FALSE)
                ELSE IF char = "}"
                THEN IF braceCount - 1 = 0 THEN i
                     ELSE FindEndFrom(text, i + 1, braceCount - 1, FALSE, FALSE)
                ELSE FindEndFrom(text, i + 1, braceCount, char = QUOTE /\ ~escapeNext, FALSE)
           ELSE FindEndFrom(text, i + 1, braceCount,
                            ~(char = QUOTE /\ ~escapeNext), char = BSLASH /\ ~escapeNext)

\* FinalJSONParser.findJsonObjectEnd(content, startPos)
findJsonObjectEnd(text, startPos) == FindEndFrom(text, startPos, 0, FALSE, FALSE)

\* if (objEnd !== -1 && objEnd <= start + maxChunkSize)
Fits(objEnd, start, maxChunkSize) == objEnd # -1 /\ objEnd <= start + maxChunkSize

\* a loop resuming one character after the end of the chunk
StartAfter(end) == end + 1

\* start = end
StartAt(end) == end

\* if (chunks.length >= 50) break
Full(chunks) == Len(chunks) >= ChunkCap

\* the while loop of createChunks from offset start on
RECURSIVE CreateFrom(_, _, _, _)
CreateFrom(text, maxChunkSize, start, chunks) ==
  IF ~(start < Len(text)) THEN chunks
  ELSE LET window == Min(start + maxChunkSize, Len(text))
           end == IF At(text, start) = "{"
                     /\ Fits(findJsonObjectEnd(text, start), start, maxChunkSize)
                  THEN findJsonObjectEnd(text, start) + 1
                  ELSE window
           pushed == Append(chunks, Slice(text, start, end))
       IN  IF Full(pushed) THEN pushed ELSE CreateFrom(text, maxChunkSize, StartAt(end), pushed)

\* FinalJSONParser.createChunks(content, maxChunkSize)
createChunks(text, maxChunkSize) == CreateFrom(text, maxChunkSize, 0, <<>>)

\* a call of createChunks
CreateChunks ==
  /\ \E text \in Contents, maxChunkSize \in 1..MaxChunkSizeOption :
       chunking' = [called |-> TRUE, content |-> text, maxChunkSize |-> maxChunkSize,
                    chunks |-> createChunks(text, maxChunkSize)]
  /\ UNCHANGED <<file, wvars, rvars, avars, dvars, largeRuns, other, second, scan, nav, stream, merger,
                   shell>>

InitChunker ==
  /\ ReaderIdle /\ WriterFresh /\ AnalyserIdle
  /\ wpc = "none" /\ data = VNull /\ file = <<>> /\ prior = file

NextChunker == CreateChunks

SpecChunker == InitChunker /\ [][NextChunker]_vars

(***************************************************************************)
(* JsonMerger.  A file name is its base name and its extension; a          *)
(* directory maps the names of the files it holds to their contents.       *)
(***************************************************************************)
\* calls of mergeJsonFiles on one JsonMerger
MaxMergeCalls == 2

FileName(base, ext) == [base |-> base, ext |-> ext]

\* excludeFiles: ['merged_output.json', 'package.json']
ExcludeFiles == {FileName("merged_output", "json"), FileName("package", "json")}

MergeNames ==
  {FileName("a", "json"), FileName("b", "json"), FileName("package", "json"),
   FileName("notes", "txt")}

\* 1, {} and the text { that JSON.parse rejects
MergeTexts == {<<"1">>, <<"{", "}">>, <<"{">>}

Directories == UNION {[names -> MergeTexts] : names \in SUBSET MergeNames}

\* getJsonFiles: the files of the directory that end with .json and are not
\* excluded
getJsonFiles(dir) == {f \in DOMAIN dir : f.ext = "json" /\ f \notin ExcludeFiles}

\* validateJsonFiles(jsonFiles)
validateJsonFiles(dir, jsonFiles) ==
  [ validFiles |-> {f \in jsonFiles : JSONParse(dir[f]).ok},
    invalidFiles |-> {f \in jsonFiles : ~JSONParse(dir[f]).ok} ]

\* this.stats.successful++ and this.stats.failed++, once per file
CountedOn(count, n) == count + n

\* mergeJsonFiles(): lost are the valid files that can no longer be read or
\* parsed when the second loop comes to them
MergeJsonFiles ==
  /\ merger.calls < MaxMergeCalls
  /\ \E dir \in Directories :
       LET jsonFiles == getJsonFiles(dir)
           checked == validateJsonFiles(dir, jsonFiles)
       IN  \E lost \in SUBSET checked.validFiles :
             LET merged == checked.validFiles \ lost
             IN  merger' =
                   [ stats |->
                       [ totalFiles |-> Cardinality(jsonFiles),
                         successful |-> CountedOn(merger.stats.successful, Cardinality(merged)),
                         failed |-> CountedOn(merger.stats.failed, Cardinality(lost)),
                         skipped |-> Cardinality(checked.invalidFiles) ],
                     calls |-> merger.calls + 1,
                     valid |-> checked.validFiles,
                     invalid |-> checked.invalidFiles,
                     lost |-> lost,
                     mergedData |-> [key \in {f.base : f \in merged} |->
                                       JSONParse(dir[FileName(key, "json")]).val],
                     threw |-> FALSE ]
  /\ UNCHANGED <<file, wvars, rvars, avars, dvars, largeRuns, other, second, scan, nav, stream,
                 chunking, shell>>

\* mergeJsonFiles() when fs.readdirSync throws: getJsonFiles rethrows
MergeDirFails ==
  /\ merger.calls < MaxMergeCalls
  /\ merger' = [merger EXCEPT !.calls = @ + 1, !.threw = TRUE]
  /\ UNCHANGED <<file, wvars, rvars, avars, dvars, largeRuns, other, second, scan, nav, stream,
                 chunking, shell>>

InitMerger ==
  /\ ReaderIdle /\ WriterFresh /\ AnalyserIdle
  /\ wpc = "none" /\ data = VNull /\ file = <<>> /\ prior = file

NextMerger == MergeJsonFiles \/ MergeDirFails

SpecMerger == InitMerger /\ [][NextMerger]_vars

(***************************************************************************)
(* InteractiveJSONBrowser.changeDirectory and getParentPath, with          *)
(* navigateToPath and buildStructure of JSONStructureBrowser.  Paths are   *)
(* sequences of characters.                                                *)
(***************************************************************************)
\* cd commands given to one browser
MaxCommands == 3

\* the document of currentFile: {"a":{"b":1,"k":[5,6]},"k":[{"b":2},7],"b":"s"}
ShellDocument == NavObject

\* the arguments of cd: .., /, /a, /x, a, b, x, k[0], a.k, x.y
ShellTargets ==
  { <<".", ".">>, <<"/">>, <<"/", "a">>, <<"/", "x">>, <<"a">>, <<"b">>, <<"x">>,
    <<"k", "[", "0", "]">>, <<"a", ".", "k">>, <<"x", ".", "y">> }

\* path.lastIndexOf(c)
LastIndexOf(path, c) ==
  IF \E i \in 1..Len(path) : path[i] = c
  THEN Max({i \in 1..Len(path) : path[i] = c}) - 1
  ELSE -1

\* InteractiveJSONBrowser.getParentPath(path)
getParentPath(path) ==
  IF path = <<>> THEN <<>>
  ELSE LET cutIndex == Max({LastIndexOf(path, "."), LastIndexOf(path, "[")})
       IN  IF cutIndex > 0 THEN SubSeq(path, 1, cutIndex) ELSE <<>>

\* JSONStructureBrowser.buildStructure(data, path): the object it returns,
\* without its children and summary
buildStructure(d, path) ==
  [ tag |-> "structure",
    type |-> IF d.tag = "arr" THEN "array" ELSE IF d.tag = "obj" THEN "object" ELSE d.tag,
    path |-> path ]

\* !structure
Falsy(v) == v.tag \in {"null", "undefined"}

\* the assignments to currentPath before the lookup
MovedPath(currentPath, targetPath) ==
  IF targetPath = <<".", ".">> THEN getParentPath(currentPath)
  ELSE IF targetPath = <<"/">> THEN <<>>
  ELSE IF targetPath[1] = "/" THEN Tail(targetPath)
  ELSE IF currentPath # <<>> THEN currentPath \o <<".">> \o targetPath
  ELSE targetPath

\* changeDirectory(targetPath); throws tells that readPartialJSON threw, so
\* that navigateToPath rethrew and the catch block logged the error
ChangeDirectory ==
  /\ shell.count < MaxCommands
  /\ \E targetPath \in ShellTargets, throws \in BOOLEAN :
       LET moved == MovedPath(shell.currentPath, targetPath)
           found == navigateData(ShellDocument, moved)
           structure == buildStructure(found, moved)
       IN  shell' =
             [ currentPath |-> IF throws THEN moved
                               ELSE IF Falsy(structure) THEN getParentPath(moved)
                               ELSE moved,
               count |-> shell.count + 1,
               before |-> shell.currentPath,
               targetPath |-> targetPath,
               moved |-> moved,
               threw |-> throws,
               data |-> IF throws THEN VNull ELSE found ]
  /\ UNCHANGED <<file, wvars, rvars, avars, dvars, largeRuns, other, second, scan, nav, stream,
                 chunking, merger>>

InitShell ==
  /\ ReaderIdle /\ WriterFresh /\ AnalyserIdle
  /\ wpc = "none" /\ data = VNull /\ file = <<>> /\ prior = file

NextShell == ChangeDirectory

SpecShell == InitShell /\ [][NextShell]_vars

(***************************************************************************)
(* directParse of the two analysers.  smartParse of StreamingJSONParser    *)
(* and parseJSON of FinalJSONParser hand a file under 100 KB to            *)
(* directParse and add fields to the report it returns.                    *)
(***************************************************************************)
\* the reports returned so far hold this.results.structure itself, not a copy
Aliased(reps, structure) ==
  [i \in 1..Len(reps) |->
     IF reps[i].success THEN [reps[i] EXCEPT !.structure = structure] ELSE reps[i]]

\* StreamingJSONParser.directParse(filePath)
StreamingDirectParse ==
  \E d \in ParsedDocs :
    /\ parser = "streaming"
    /\ Len(docs) < MaxRuns
    /\ docs' = Append(docs, d)
    /\ IF ~d.ok \/ d.val.tag = "null"
       THEN \* JSON.parse or Object.keys(null) throws: the catch block returns
            /\ results' = results
            /\ reports' = Append(reports, FailureReport)
            /\ returned' = Append(returned, FailureReport)
       ELSE LET r0 == [results EXCEPT !.topLevelKeys = KeysOf(d.val),
                                      !.maxDepth = calculateMaxDepth(d.val, 0)]
                r == analyzeChildren(r0, r0.structure, KeysOf(d.val), ValuesOf(d.val), 1, 0)
                after == [r.results EXCEPT !.structure = r.structure]
            IN  /\ results' = after
                /\ reports' = Append(Aliased(reports, after.structure), getResults(after))
                /\ returned' = Append(returned, getResults(after))
    /\ UNCHANGED <<file, wvars, rvars, parser, dvars, xvars>>

\* FinalJSONParser.directParse(filePath)
FinalDirectParse ==
  \E d \in ParsedDocs :
    /\ parser = "final"
    /\ Len(docs) < MaxFinalRuns
    /\ docs' = Append(docs, d)
    /\ IF ~d.ok
       THEN \* JSON.parse throws before resetStats
            /\ results' = results
            /\ reports' = Append(reports, FailureReport)
            /\ returned' = Append(returned, FailureReport)
       ELSE LET after == analyzeCompleteStructure(FreshResults, d.val, 0)
                \* Object.keys(null) throws while the report is built
                report == IF d.val.tag = "null" THEN FailureReport
                          ELSE FinalReport(after, d.val, FileSize(d))
            IN  /\ results' = after
                /\ reports' = Append(reports, report)
                /\ returned' = Append(returned, report)
    /\ UNCHANGED <<file, wvars, rvars, parser, dvars, xvars>>

(***************************************************************************)
(* DeepStreamAnalyzer.analyzeMultipleFiles: one action for each way an     *)
(* iteration of its loop over filePaths can go.                            *)
(***************************************************************************)
\* fs.existsSync(filePath) is false
DeepFileMissing ==
  /\ parser = "deep"
  /\ Len(fileResults) < MaxFiles
  /\ fileResults' = Append(fileResults, [success |-> FALSE, error |-> "File not found"])
  /\ UNCHANGED <<file, wvars, rvars, avars, stats, started, sinceReset, xvars>>

\* analyzeFile resolves, saveReport succeeds, the statistics are reset
DeepFileAnalysed ==
  \E v \in StreamedValues :
    /\ parser = "deep"
    /\ Len(fileResults) < MaxFiles
    /\ LET after == deepAnalyzeValue(stats, v, <<>>)
       IN  /\ started' = Append(started, [before |-> stats, after |-> after,
                                          values |-> Append(sinceReset, v)])
           /\ fileResults' = Append(fileResults,
                                    [success |-> TRUE, totalKeys |-> after.totalKeys,
                                     report |-> generateReport(after)])
    /\ stats' = FreshStats
    /\ sinceReset' = <<>>
    /\ UNCHANGED <<file, wvars, rvars, avars, xvars>>

\* the pipeline emits an error before it delivers a value: analyzeFile rejects
DeepFileRejected ==
  /\ parser = "deep"
  /\ Len(fileResults) < MaxFiles
  /\ started' = Append(started, [before |-> stats, after |-> stats,
                                 values |-> sinceReset])
  /\ fileResults' = Append(fileResults, [success |-> FALSE, error |-> "parse"])
  /\ UNCHANGED <<file, wvars, rvars, avars, stats, sinceReset, xvars>>

\* analyzeFile resolves and saveReport rejects: the catch block records it
DeepFileSaveFails ==
  \E v \in StreamedValues :
    /\ parser = "deep"
    /\ Len(fileResults) < MaxFiles
    /\ started' = Append(started, [before |-> stats,
                                   after |-> deepAnalyzeValue(stats, v, <<>>),
                                   values |-> Append(sinceReset, v)])
    /\ stats' = deepAnalyzeValue(stats, v, <<>>)
    /\ sinceReset' = Append(sinceReset, v)
    /\ fileResults' = Append(fileResults, [success |-> FALSE, error |-> "save"])
    /\ UNCHANGED <<file, wvars, rvars, avars, xvars>>

\* StreamingJSONParser.parseLargeJSON(filePath): the stream is read to its
\* end, the collected fragments are processed, getResults() is the result
StreamingParseLarge ==
  \E text \in LargeTexts :
    /\ parser = "large"
    /\ Len(largeRuns) < MaxLargeRuns
    /\ LET jsonObjects == CollectObjects(text)
           after == processJSONObjects(results, jsonObjects)
       IN  /\ results' = after
           /\ largeRuns' = Append(largeRuns, [jsonObjects |-> jsonObjects,
                                              before |-> results,
                                              report |-> getResults(after)])
    /\ UNCHANGED <<file, wvars, rvars, parser, docs, reports, returned, dvars, other, second,
                   scan, nav, stream, chunking, merger, shell>>

InitAnalysers ==
  /\ ReaderIdle
  /\ WriterFresh
  /\ wpc = "none"
  /\ data = VNull
  /\ file = <<>>
  /\ prior = <<>>
  /\ parser \in {"streaming", "final", "deep", "large"}
  /\ results = FreshResults
  /\ docs = <<>>
  /\ reports = <<>>
  /\ returned = <<>>
  /\ stats = FreshStats
  /\ fileResults = <<>>
  /\ started = <<>>
  /\ sinceReset = <<>>
  /\ largeRuns = <<>>
  /\ other = OtherIdle
  /\ second = SecondIdle
  /\ scan = NoScan
  /\ nav = NoNav
  /\ stream = NoStream
  /\ chunking = NoChunking
  /\ merger = NewMerger
  /\ shell = NewShell

NextAnalysers ==
  \/ StreamingDirectParse
  \/ FinalDirectParse
  \/ DeepFileMissing
  \/ DeepFileAnalysed
  \/ DeepFileRejected
  \/ DeepFileSaveFails
  \/ StreamingParseLarge
SpecAnalysers == InitAnalysers /\ [][NextAnalysers]_vars

(***************************************************************************)
(* Notions the properties are stated with.                                 *)
(***************************************************************************)
TotalLength == Len(content)

WellFormed(text) == JSONParse(text).ok

\* the lexical state after the first n characters of text, read left to
\* right: "out" of any string literal, "in" one, or "esc" (in one, after a
\* backslash)
RECURSIVE Lex(_, _)
Lex(text, n) ==
  IF n = 0 THEN "out"
  ELSE LET before == Lex(text, n - 1)
           c == text[n]
       IN  IF before = "out" THEN (IF c = QUOTE THEN "in" ELSE "out")
           ELSE IF before = "esc" THEN "in"
           ELSE IF c = BSLASH THEN "esc"
           ELSE IF c = QUOTE THEN "out"
           ELSE "in"

\* offset i lies after the opening quote of a string literal and before or
\* at its closing quote
InsideString(text, i) == Lex(text, i) # "out"

\* the scans as they would run if the brackets inside string literals
\* were no brackets
RECURSIVE PrevStructural(_, _, _)
PrevStructural(text, i, depth) ==
  IF i < 0 THEN -1
  ELSE IF i >= Len(text) \/ InsideString(text, i) THEN PrevStructural(text, i - 1, depth)
  ELSE IF IsOpen(At(text, i))
       THEN IF depth = 0 THEN i ELSE PrevStructural(text, i - 1, depth - 1)
  ELSE IF IsClose(At(text, i)) THEN PrevStructural(text, i - 1, depth + 1)
  ELSE PrevStructural(text, i - 1, depth)

RECURSIVE NextStructural(_, _, _)
NextStructural(text, i, depth) ==
  IF i >= Len(text) THEN -1
  ELSE IF InsideString(text, i) THEN NextStructural(text, i + 1, depth)
  ELSE IF IsOpen(At(text, i)) THEN NextStructural(text, i + 1, depth + 1)
  ELSE IF IsClose(At(text, i))
       THEN IF depth - 1 = 0 THEN i + 1 ELSE NextStructural(text, i + 1, depth - 1)
  ELSE NextStructural(text, i + 1, depth)

\* the chunks of the yielded items joined in order
RECURSIVE Joined(_)
Joined(its) == IF its = <<>> THEN <<>> ELSE Head(its).chunk \o Joined(Tail(its))

RECURSIVE DeepEqual(_, _)
DeepEqual(v, w) ==
  /\ v.tag = w.tag
  /\ CASE v.tag = "num" -> v.n = w.n
       [] v.tag = "str" -> v.s = w.s
       [] v.tag = "bool" -> v.b = w.b
       [] v.tag = "arr" ->
            /\ Len(v.es) = Len(w.es)
            /\ \A i \in 1..Len(v.es) : DeepEqual(v.es[i], w.es[i])
       [] v.tag = "obj" ->
            /\ Len(v.ks) = Len(w.ks)
            /\ \A i \in 1..Len(v.ks) :
                 \E j \in 1..Len(w.ks) :
                   w.ks[j] = v.ks[i] /\ DeepEqual(v.vs[i], w.vs[j])
       [] OTHER -> TRUE

\* the number of characters c of text outside string literals
StructuralCount(text, c) ==
  Cardinality({i \in 0..(Len(text) - 1) : At(text, i) = c /\ ~InsideString(text, i)})

UnbalancedBraces(text) == StructuralCount(text, "{") # StructuralCount(text, "}")

(***************************************************************************)
(* Properties of readJSONInChunks.                                         *)
(***************************************************************************)
Steps == 1..Len(steps)

\* C1: reading a well-formed document with pretty disabled, the source
\* ranges of the chunks leave no gap: the first starts at 0, each next one
\* starts at or before the end of the one before, every offset the scan
\* position has passed lies in some chunk's range, and so at the end every
\* offset of [0, len) does.
C1_CoverageNoGaps ==
  (rpc # "idle" /\ ~pretty /\ WellFormed(content)) =>
    /\ (steps # <<>> => steps[1].lo = 0)
    /\ \A k \in Steps : k > 1 => steps[k].lo <= steps[k - 1].hi
    /\ \A o \in 0..(Min(position, TotalLength) - 1) :
         \E k \in Steps : steps[k].lo <= o /\ o < steps[k].hi
    /\ (rpc = "done" => position >= TotalLength)

\* a finished read of a well-formed document in several chunks, one of them
\* widened by the scans
C1_Witness ==
  /\ rpc = "done"
  /\ ~pretty
  /\ WellFormed(content)
  /\ Len(steps) >= 2
  /\ \E k \in Steps : steps[k].found

\* C2: on any content every iteration moves the scan position forward by at
\* least chunkSize, so at most ceil(len / chunkSize) items are yielded.
C2_AdvanceAtLeastChunkSize ==
  /\ \A k \in Steps : steps[k].after >= steps[k].before + chunkSize
  /\ (items # <<>> => (Len(items) - 1) * chunkSize < TotalLength)
  /\ position >= Len(items) * chunkSize

\* a finished read of malformed content with a validated step among the
\* fallback steps
C2_Witness ==
  /\ rpc = "done"
  /\ ~WellFormed(content)
  /\ \E k \in Steps : steps[k].branch = "valid"
  /\ \E k \in Steps : steps[k].branch = "fallback"

\* C3: when the read of a non-empty document finishes, the last item has
\* progress 100 and every progress lies in 0..100.
C3_FinalProgress100 ==
  (rpc = "done" /\ TotalLength > 0) =>
    /\ items[Len(items)].progress = 100
    /\ \A k \in 1..Len(items) : items[k].progress \in 0..100

\* C4: the scans the reader starts treat a bracket inside a string literal
\* as no bracket (they return what the scan over the structural brackets
\* returns), and never return an offset inside a string literal.
C4_ScansSkipStrings ==
  (rpc = "reading" /\ position < TotalLength) =>
    LET endPosition == WindowEnd(position, chunkSize, TotalLength)
        startIndex == findPreviousBracket(content, position)
        endIndex == findNextBracket(content, endPosition)
    IN  /\ startIndex = PrevStructural(content, position, 0)
        /\ endIndex = NextStructural(content, endPosition, 0)
        /\ startIndex # -1 => ~InsideString(content, startIndex)
        /\ endIndex # -1 => ~InsideString(content, endIndex)

\* C5: every fallback step emits the raw window of content and advances by
\* exactly chunkSize.
C5_FallbackEmitsRawWindow ==
  \A k \in Steps :
    steps[k].branch = "fallback" =>
      /\ items[k].chunk =
           Slice(content, steps[k].before, Min(steps[k].before + chunkSize, TotalLength))
      /\ steps[k].after = steps[k].before + chunkSize

\* C6: with pretty disabled, the chunk of every validated step is the slice
\* of content from the item's position to the scan position after the step,
\* and it parses as JSON.
C6_ValidChunkIsSlice ==
  ~pretty =>
    \A k \in Steps :
      steps[k].branch = "valid" =>
        /\ items[k].chunk = Slice(content, items[k].position, steps[k].after)
        /\ WellFormed(items[k].chunk)
        /\ items[k].position < steps[k].after

\* a validated step was taken with pretty disabled
C6_Witness ==
  /\ ~pretty
  /\ \E k \in Steps : steps[k].branch = "valid"

\* C7 as claimed: the progress of every item is the rounded percentage of
\* the position field of that item.
C7_ProgressOfItemPosition ==
  \A k \in 1..Len(items) :
    items[k].progress = Progress(items[k].position, TotalLength)

\* p is an integer nearest to 100 * pos / total
NearestPercent(p, pos, total) ==
  /\ total * (2 * p - 1) <= 200 * pos
  /\ 200 * pos <= total * (2 * p + 1)

\* C7 as amended: the progress of every item is the rounded percentage of
\* the scan position after the step; the item's position field is that
\* position on the fallback branch only, on the validated branch it is the
\* start of the chunk.
C7_ProgressOfScanPosition ==
  \A k \in Steps :
    /\ NearestPercent(items[k].progress, steps[k].after, TotalLength)
    /\ steps[k].branch = "fallback" => items[k].position = steps[k].after
    /\ steps[k].branch = "valid" => items[k].position = steps[k].lo

\* items of both branches were yielded, the validated one not from offset 0
\* to offset 0
C7_Witness ==
  /\ \E k \in Steps : steps[k].branch = "valid" /\ items[k].position < steps[k].after
  /\ \E k \in Steps : steps[k].branch = "fallback"

\* C8: reading {"a":1,"b":[1,2,3]} with chunkSize 5 yields one item, the
\* whole object from the validated branch, with progress 100.
C8_ScenarioOneValidChunk ==
  (rpc = "done" /\ content = DocScenario /\ chunkSize = 5 /\ ~pretty) =>
    /\ Len(items) = 1
    /\ items[1].chunk = DocScenario
    /\ steps[1].branch = "valid"
    /\ items[1].progress = 100

\* C9: the read of malformed content with unbalanced braces finishes, with
\* final progress 100 and no item from the validated branch.
C9_MalformedAllFallback ==
  (~WellFormed(content) /\ UnbalancedBraces(content)) =>
    /\ (items # <<>> => (Len(items) - 1) * chunkSize < TotalLength)
    /\ (rpc = "done" =>
          /\ position >= TotalLength
          /\ items[Len(items)].progress = 100
          /\ \A k \in Steps : steps[k].branch = "fallback")

\* C10: a value written by writeJSONInChunks into a fresh file and read back
\* with pretty disabled is deep-equal to the parse of the joined chunks.
C10_RoundTrip ==
  (wpc = "done" /\ ~append /\ rpc = "done" /\ ~pretty) =>
    LET parsed == JSONParse(Joined(items))
    IN  parsed.ok /\ DeepEqual(parsed.val, data)

(***************************************************************************)
(* Notions the properties of the analysers are stated with.  A node of a   *)
(* document is named by its position: the indices of the children taken    *)
(* from the root, so the root is <<>> and its i-th child is <<i>>.         *)
(***************************************************************************)
Last(seq) == seq[Len(seq)]
Front(seq) == SubSeq(seq, 1, Len(seq) - 1)

RECURSIVE Positions(_)
Positions(v) ==
  {<<>>} \cup
  (IF IsComposite(v)
   THEN UNION { {<<i>> \o q : q \in Positions(ValuesOf(v)[i])} : i \in 1..Len(ValuesOf(v)) }
   ELSE {})

RECURSIVE NodeAt(_, _)
NodeAt(v, p) == IF p = <<>> THEN v ELSE NodeAt(ValuesOf(v)[p[1]], Tail(p))

\* the path StreamingJSONParser names a node below the root by
RECURSIVE PathAt(_, _)
PathAt(v, p) ==
  IF Len(p) = 1 THEN KeysOf(v)[p[1]]
  ELSE ChildPaths(PathAt(v, Front(p)), NodeAt(v, Front(p)))[Last(p)]

\* the depth directParse of StreamingJSONParser gives a node: 0 for the values
\* of the top-level keys
AnalysisDepth(p) == Len(p) - 1

\* the depth of the deepest node of a document, the root being at depth 0
NestingDepth(v) == Max({Len(p) : p \in Positions(v)})

\* the runs of directParse that got as far as analysing the document
Analysed == {i \in 1..Len(docs) : docs[i].ok /\ docs[i].val.tag # "null"}

\* the nodes within the cutoff, over all analysed runs
WithinCutoff ==
  { <<i, p>> \in UNION { {i} \X (Positions(docs[i].val) \ {<<>>}) : i \in Analysed } :
      AnalysisDepth(p) <= DepthCutoff }

TypeCountSum(counts) ==
  counts["objects"] + counts["arrays"] + counts["strings"]
    + counts["numbers"] + counts["booleans"] + counts["nulls"]

\* C11: after any sequence of analyses by StreamingJSONParser or
\* FinalJSONParser the six type counters add up to totalElements, in the
\* accumulator and in every report returned.
C11_TypeCountsSumToTotal ==
  /\ TypeCountSum(results.typeCounts) = results.totalElements
  /\ \A i \in 1..Len(returned) :
       returned[i].success =>
         TypeCountSum(returned[i].stats.typeDistribution) = returned[i].stats.totalElements

\* two analyses have run and every counter has counted something
C11_Witness ==
  /\ parser = "streaming"
  /\ Len(docs) >= 2
  /\ \A t \in TypeNames : results.typeCounts[t] > 0
  /\ returned[Len(returned)].success

\* C12: for a document nested no deeper than the cutoff, the maxDepth in the
\* report directParse returns is the nesting depth of the document.
C12_MaxDepthIsNestingDepth ==
  \A i \in 1..Len(returned) :
    (returned[i].success /\ NestingDepth(docs[i].val) <= DepthCutoff) =>
      returned[i].stats.maxDepth = NestingDepth(docs[i].val)

\* the per-path counts of a report
PathCounts(report) == [p \in DOMAIN report.structure |-> report.structure[p].count]

\* C13: two runs of one StreamingJSONParser on the same document return
\* identical reports (type distribution, totalElements, maxDepth, per-path
\* counts), and the first report is as it was when it was returned.
C13_RepeatedRunSameReport ==
  parser = "streaming" =>
    \A i, j \in 1..Len(docs) :
      (i < j /\ docs[i] = docs[j] /\ returned[i].success) =>
        /\ returned[j].stats = returned[i].stats
        /\ PathCounts(returned[j]) = PathCounts(returned[i])
        /\ reports[i] = returned[i]

\* C15: analyzeValue descends only from depth < cutoff: the nodes counted are
\* exactly the nodes at depth <= cutoff, composite ones at the cutoff
\* included, each in its type counter, in totalElements and at its path.
C15_CountedUpToCutoff ==
  parser = "streaming" =>
    /\ results.totalElements = Cardinality(WithinCutoff)
    /\ \A t \in TypeNames :
         results.typeCounts[t] =
           Cardinality({n \in WithinCutoff : CounterOf(NodeAt(docs[n[1]].val, n[2])) = t})
    /\ DOMAIN results.structure = {PathAt(docs[n[1]].val, n[2]) : n \in WithinCutoff}
    /\ \A path \in DOMAIN results.structure :
         results.structure[path].count =
           Cardinality({n \in WithinCutoff : PathAt(docs[n[1]].val, n[2]) = path})

\* a document with a non-empty composite at the cutoff depth has been analysed
C15_Witness ==
  /\ parser = "streaming"
  /\ \E i \in Analysed : \E p \in Positions(docs[i].val) :
       /\ p # <<>>
       /\ AnalysisDepth(p) = DepthCutoff
       /\ IsComposite(NodeAt(docs[i].val, p))
       /\ Len(ValuesOf(NodeAt(docs[i].val, p))) > 0
       /\ results.structure[PathAt(docs[i].val, p)].count > 0

\* C14: in analyzeMultipleFiles every call of analyzeFile starts with empty
\* statistics, whatever happened to the files before it.
C14_StatsFreshPerFile ==
  parser = "deep" => \A i \in 1..Len(started) : started[i].before = FreshStats

RECURSIVE PreOrder(_), PreOrderFrom(_, _)
\* the positions of the nodes of v in traversal order: a node before its
\* children, object keys in insertion order, array elements in index order
PreOrder(v) == <<<<>>>> \o (IF IsComposite(v) THEN PreOrderFrom(v, 1) ELSE <<>>)
PreOrderFrom(v, i) ==
  IF i > Len(ValuesOf(v)) THEN <<>>
  ELSE LET below == PreOrder(ValuesOf(v)[i])
       IN  [k \in 1..Len(below) |-> <<i>> \o below[k]] \o PreOrderFrom(v, i + 1)

FirstK(seq, k) == SubSeq(seq, 1, Min(Len(seq), k))

RECURSIVE VisitsFrom(_, _)
\* the nodes of the values vs[i], vs[i+1], ... as pairs <<index, position>>,
\* in traversal order
VisitsFrom(vs, i) ==
  IF i > Len(vs) THEN <<>>
  ELSE LET order == PreOrder(vs[i])
       IN  [k \in 1..Len(order) |-> <<i, order[k]>>] \o VisitsFrom(vs, i + 1)

\* the strings StreamingJSONParser met at a path, cut to the sample length
StringsMetAt(path) ==
  LET vs == [i \in 1..Len(docs) |-> docs[i].val]
      met == SelectSeq(VisitsFrom(vs, 1),
               LAMBDA n : /\ n[1] \in Analysed
                          /\ n[2] # <<>>
                          /\ AnalysisDepth(n[2]) <= DepthCutoff
                          /\ NodeAt(vs[n[1]], n[2]).tag = "str"
                          /\ PathAt(vs[n[1]], n[2]) = path)
  IN  [k \in 1..Len(met) |->
         LET s == NodeAt(vs[met[k][1]], met[k][2]).s
         IN  SubSeq(s, 1, Min(Len(s), 50))]

RECURSIVE DeepPathAt(_, _)
\* the path DeepStreamAnalyzer names a node by
DeepPathAt(v, p) ==
  IF p = <<>> THEN <<>>
  ELSE LET parent == NodeAt(v, Front(p))
           segment == IF parent.tag = "arr" THEN <<"[">> \o Dec(Last(p) - 1) \o <<"]">>
                      ELSE parent.ks[Last(p)]
       IN  IF Len(p) = 1 THEN segment ELSE DeepPathAt(v, Front(p)) \o <<".">> \o segment

\* the values DeepStreamAnalyzer met at a path while analysing vs
ValuesMetAt(vs, path) ==
  LET met == SelectSeq(VisitsFrom(vs, 1), LAMBDA n : DeepPathAt(vs[n[1]], n[2]) = path)
  IN  [k \in 1..Len(met) |-> NodeAt(vs[met[k][1]], met[k][2])]

RECURSIVE Concat(_)
\* the texts of a sequence joined in order
Concat(chunks) == IF chunks = <<>> THEN <<>> ELSE chunks[1] \o Concat(Tail(chunks))

\* writeJSONInChunks has got past fs.open
WriteStarted == wpc \in {"writing", "done"}

\* C17: the writes of writeJSONInChunks are the consecutive slices of the
\* serialization: each but the last has chunkSize characters, the last has
\* between 1 and chunkSize, joined they are the serialization, and a file
\* written with append = false holds exactly JSON.stringify(data).
C17_WritesAreConsecutiveSlices ==
  LET serialized == JSONStringify(data, wPretty)
      n == Len(writes)
  IN  /\ WriteStarted =>
           /\ \A i \in 1..n :
                /\ Len(writes[i]) >= 1
                /\ Len(writes[i]) <= wChunkSize
                /\ writes[i] = SubSeq(serialized, (i - 1) * wChunkSize + 1,
                                      (i - 1) * wChunkSize + Len(writes[i]))
           /\ \A i \in 1..(n - 1) : Len(writes[i]) = wChunkSize
      /\ wpc = "done" =>
           /\ Concat(writes) = serialized
           /\ ~append => file = serialized

\* a serialization written in three or more writes, the last one short
C17_Witness ==
  /\ wpc = "done"
  /\ ~append
  /\ Len(writes) >= 3
  /\ Len(writes[Len(writes)]) < wChunkSize

\* C18: with append = true the content the file had is kept as a prefix and
\* the serialization follows it; with append = false the file holds the
\* serialization only.
C18_AppendKeepsPrefix ==
  /\ (WriteStarted /\ append) =>
       /\ Len(file) >= Len(prior)
       /\ SubSeq(file, 1, Len(prior)) = prior
  /\ (WriteStarted /\ ~append) =>
       \A i \in 1..Len(file) : file[i] = JSONStringify(data, wPretty)[i]
  /\ wpc = "done" =>
       file = (IF append THEN prior ELSE <<>>) \o JSONStringify(data, wPretty)

\* a write with append = true to a file that had content
C18_Witness ==
  /\ wpc = "done"
  /\ append
  /\ prior # <<>>
  /\ Len(writes) >= 2

\* C19: when readJSONInChunks or writeJSONInChunks has ended (completed, was
\* stopped by the consumer, or threw) no file handle it opened is open.
C19_NoHandleLeftOpen ==
  (wpc \in {"done", "failed"} \/ rpc \in {"done", "stopped", "failed"}) => handles = {}

Parsing(jsonObjects) == SelectSeq(jsonObjects, LAMBDA t : JSONParse(t).ok)

\* C21: when a collected fragment fails to parse, parseLargeJSON still
\* returns a report, and the report shows that it is partial: it is not the
\* report the same call returns when the failing fragments are absent.
C21_PartialReportIsMarked ==
  parser = "large" =>
    \A i \in 1..Len(largeRuns) :
      Parsing(largeRuns[i].jsonObjects) # largeRuns[i].jsonObjects =>
        /\ largeRuns[i].report.success
        /\ largeRuns[i].report #
             getResults(processJSONObjects(largeRuns[i].before,
                                           Parsing(largeRuns[i].jsonObjects)))

RECURSIVE ItemsAlone(_, _, _, _)
\* the items a generator yields from position pos on when nothing else runs
ItemsAlone(text, pos, size, fmt) ==
  IF pos >= Len(text) THEN <<>>
  ELSE LET r == ReadIteration(text, pos, size, fmt)
       IN  <<r.item>> \o ItemsAlone(text, r.after, size, fmt)

IsPrefix(s, t) == Len(s) <= Len(t) /\ SubSeq(t, 1, Len(s)) = s

\* C22: two generators over the same file, pulled in any interleaving, each
\* yield the items they yield when run alone: at every moment a prefix of
\* that sequence, and all of it when they have ended.
C22_ReadersIndependent ==
  /\ rpc \in {"reading", "done"} =>
       LET alone == ItemsAlone(file, 0, chunkSize, pretty)
       IN  /\ IsPrefix(items, alone)
           /\ rpc = "done" => items = alone
  /\ other.rpc \in {"reading", "done"} =>
       LET alone == ItemsAlone(file, 0, other.chunkSize, other.pretty)
       IN  /\ IsPrefix(other.items, alone)
           /\ other.rpc = "done" => other.items = alone

\* both generators have yielded, with different options, and neither has ended
C22_Witness ==
  /\ rpc = "reading"
  /\ other.rpc = "reading"
  /\ Len(items) >= 2
  /\ Len(other.items) >= 2
  /\ chunkSize # other.chunkSize
  /\ position # other.position

\* the chunk writes of the two calls were interleaved: the first call wrote
\* between two writes of the second, or the second between two of the first
Interleaved ==
  /\ second.seen # <<>>
  /\ writes # <<>>
  /\ \/ \E i, j \in 1..Len(second.seen) : second.seen[i] # second.seen[j]
     \/ 0 < second.seen[1] /\ second.seen[1] < Len(writes)

\* the second call performed the last write
SecondWroteLast == second.seen # <<>> /\ Last(second.seen) = Len(writes)

\* C23: when two calls with append = false have interleaved their chunk
\* writes and both have returned, the file holds the complete serialization
\* of the call that performed the last write.
C23_LastWriteWins ==
  (wpc = "done" /\ second.wpc = "done" /\ ~append /\ Interleaved) =>
    file = (IF SecondWroteLast THEN second.jsonString ELSE jsonString)

C25_WriteCallbackAfterEachWrite ==
  (wCallback /\ wpc \in {"writing", "done"}) =>
    /\ Len(wCalls) = Len(writes)
    /\ \A k \in 1..Len(wLogged) :
         /\ wLogged[k] <= 100
         /\ k > 1 => wLogged[k - 1] <= wLogged[k]
    /\ (wpc = "done" /\ wLogged # <<>>) => Last(wLogged) = 100

NoStrings(text) == \A i \in 1..Len(text) : text[i] # QUOTE

\* the number of opening and of closing brackets at the offsets lo..hi
Opens(text, lo, hi) == Cardinality({i \in lo..hi : i < Len(text) /\ IsOpen(At(text, i))})
Closes(text, lo, hi) == Cardinality({i \in lo..hi : i < Len(text) /\ IsClose(At(text, i))})

\* the opening bracket at j has no closing bracket matching it at or before a
UnmatchedUpTo(text, j, a) ==
  /\ j < Len(text)
  /\ IsOpen(At(text, j))
  /\ \A c \in (j + 1)..a : Closes(text, j + 1, c) <= Opens(text, j + 1, c)

\* the closing bracket at i brings the depth counted from a back to zero
ClosesToZero(text, a, i) ==
  /\ IsClose(At(text, i))
  /\ Opens(text, a, i) = Closes(text, a, i)

Least(S) == CHOOSE x \in S : \A y \in S : x <= y

\* C26: on a text without string literals findPreviousBracket returns the
\* nearest opening bracket at or before a that no closing bracket at or
\* before a matches, where the backward depth is zero; findNextBracket
\* returns the offset past the first closing bracket at or after a that
\* brings the forward depth to zero; each returns -1 when there is none.
C26_ScannerResults ==
  NoStrings(file) =>
    /\ scan.fn = "findPreviousBracket" =>
         LET unmatched == {j \in 0..scan.position : UnmatchedUpTo(file, j, scan.position)}
         IN  /\ scan.result = (IF unmatched = {} THEN -1 ELSE Max(unmatched))
             /\ scan.result # -1 =>
                  Closes(file, scan.result + 1, scan.position)
                    = Opens(file, scan.result + 1, scan.position)
    /\ scan.fn = "findNextBracket" =>
         LET zero == {i \in scan.position..(Len(file) - 1) : ClosesToZero(file, scan.position, i)}
         IN  scan.result = (IF zero = {} THEN -1 ELSE Least(zero) + 1)

\* a forward scan has passed a closing bracket and ended after a later one
C26_Witness ==
  /\ NoStrings(file)
  /\ scan.fn = "findNextBracket"
  /\ scan.result # -1
  /\ Closes(file, scan.position, scan.result - 2) > 0

\* C27: in the scans the steps of readJSONInChunks start on a well-formed
\* document, findPreviousBracket from the scan position and findNextBracket
\* from the end of the window, the depth counter is never negative.
C27_DepthNeverNegative ==
  WellFormed(content) =>
    \A k \in Steps :
      LET pos == steps[k].before
          endPosition == WindowEnd(pos, chunkSize, TotalLength)
          backward == PrevDepths(content, pos, 0)
          forward == NextDepths(content, endPosition, 0)
      IN  /\ \A n \in 1..Len(backward) : backward[n] >= 0
          /\ \A n \in 1..Len(forward) : forward[n] >= 0

\* C28: the density of a returned report, times the size of the document in
\* KB, is the number of objects and arrays the report counts.
C28_DensityPerKB ==
  parser \in {"streaming", "final"} =>
    \A i \in 1..Len(returned) :
      returned[i].success =>
        LET density == returned[i].complexity.density
            counts == returned[i].stats.typeDistribution
        IN  density.num * FileSize(docs[i])
              = (counts["objects"] + counts["arrays"]) * 1024 * density.den

\* C29: every chunk readJSONInChunks yields has at most chunkSize characters.
C29_ChunkWithinChunkSize ==
  \A k \in 1..Len(items) : Len(items[k].chunk) <= chunkSize

\* C30: for a path a.b navigateData returns data.a.b, and for a path k[i] it
\* returns element i of the array stored at property k of data.
C30_NavigateResolves ==
  (nav.called /\ nav.data.tag = "obj") =>
    /\ \A a, b \in NavNames :
         (/\ nav.path = a \o <<".">> \o b
          /\ PropertyOf(nav.data, a).tag = "obj")
           => nav.result = PropertyOf(PropertyOf(nav.data, a), b)
    /\ \A k \in NavNames, i \in 0..MaxIndex :
         (/\ nav.path = Indexed(k, i)
          /\ PropertyOf(nav.data, k).tag = "arr")
           => nav.result = ElementOf(PropertyOf(nav.data, k), i)

\* the offset of element e (from 0) of DocTenObjects
ElementStart(e) == 1 + 3 * e

\* C31: reading the array of 10 objects of 2 characters with chunkSize 4,
\* twice the size of an element, yields 5 items, all from the validated
\* branch, each holding 2 consecutive elements.
C31_TenObjectsFiveChunks ==
  (rpc = "done" /\ content = DocTenObjects /\ chunkSize = 4 /\ ~pretty) =>
    /\ Len(items) = 5
    /\ \A k \in 1..Len(items) :
         /\ steps[k].branch = "valid"
         /\ \E e \in 0..8 :
              items[k].chunk = Slice(content, ElementStart(e), ElementStart(e + 1) + 2)

\* the number of characters c among the first n of text outside string literals
StructuralUpTo(text, n, c) ==
  Cardinality({i \in 0..(n - 1) : At(text, i) = c /\ ~InsideString(text, i)})

\* C32: whatever the chunks the stream delivers, after any number of
\* characters braceCount and bracketCount are the opening minus the closing
\* braces and brackets outside string literals, and the scanner is in a
\* string exactly when the text is; no character of a string literal, after
\* an escaped quote or backslash or across a chunk boundary, changes a count.
C32_StringsNeverCounted ==
  stream.phase # "idle" =>
    LET n == stream.processedSize
        text == stream.text
    IN  /\ stream.st.braceCount = StructuralUpTo(text, n, "{") - StructuralUpTo(text, n, "}")
        /\ stream.st.bracketCount = StructuralUpTo(text, n, "[") - StructuralUpTo(text, n, "]")
        /\ stream.st.inString = (Lex(text, n) # "out")
        /\ stream.st.escapeNext = (Lex(text, n) = "esc")

\* the scanner stands inside a string literal, past an escaped quote and a
\* brace of the string
C32_Witness ==
  /\ stream.phase = "flowing"
  /\ stream.text = TextEscapedQuote
  /\ stream.processedSize = 9
  /\ stream.st.inString
  /\ stream.st.braceCount = 1

\* the text is one top-level JSON object
OneObject(text) == JSONParse(text).ok /\ JSONParse(text).val.tag = "obj"

\* C33: when the stream over a text that is one top-level JSON object has
\* ended, the scanner has collected exactly one candidate, the candidate is
\* the text itself, and the resolved report lists the top-level keys of the
\* object
C33_OneObjectOneCandidate ==
  (stream.phase = "ended" /\ OneObject(stream.text)) =>
    /\ stream.st.jsonObjects = <<stream.text>>
    /\ stream.report.topLevelKeys = AddAll(<<>>, KeysOf(JSONParse(stream.text).val), 1)

\* no further event of the stream can be delivered: end or error has been
\* emitted, or the stream has been destroyed
StreamOver == stream.phase \in {"ended", "failed", "destroyed"}

\* C34: once the stream of a call of parseLargeJSON can deliver no further
\* event, the promise of the call is settled: resolved with a report after
\* end, rejected with the stream error after error, and settled too after the
\* stream was destroyed on reaching maxSamples
C34_PromiseSettles ==
  StreamOver =>
    \/ stream.promise = "resolved" /\ stream.report.success
    \/ stream.promise = "rejected" /\ stream.error \in IOErrors

\* the fragments collected by the stream that processJSONObjects can parse
StreamFragments ==
  {i \in 1..Len(stream.st.jsonObjects) : JSONParse(stream.st.jsonObjects[i]).ok}

FragmentValue(i) == JSONParse(stream.st.jsonObjects[i]).val

\* the nodes of the parsed fragments at most DepthCutoff levels below a
\* top-level key
StreamWithinCutoff ==
  { <<i, p>> \in UNION { {i} \X (Positions(FragmentValue(i)) \ {<<>>}) : i \in StreamFragments } :
      AnalysisDepth(p) <= DepthCutoff }

\* C37: whatever maxDepth option parseLargeJSON was called with, the report
\* it resolves with counts exactly the nodes of the parsed fragments that lie
\* at most 5 levels below a top-level key, each under its type; no deeper
\* node is counted.
C37_CutoffIgnoresMaxDepth ==
  stream.phase = "ended" =>
    /\ stream.report.stats.totalElements = Cardinality(StreamWithinCutoff)
    /\ \A t \in TypeNames :
         stream.report.stats.typeDistribution[t] =
           Cardinality({n \in StreamWithinCutoff : CounterOf(NodeAt(FragmentValue(n[1]), n[2])) = t})

\* a call with maxDepth 1 has resolved for a document nested deeper than the
\* cutoff: the nodes down to level 5 are counted, the deeper ones are not
C37_Witness ==
  /\ stream.phase = "ended"
  /\ stream.maxDepth = 1
  /\ stream.text = TextDeepArrays
  /\ StreamFragments = {1}
  /\ \E p \in Positions(FragmentValue(1)) : AnalysisDepth(p) > DepthCutoff
  /\ stream.report.stats.totalElements = 6

\* the chunks are consecutive slices of the content that start at offset 0
Consecutive(chunks, text) ==
  \A k \in 1..Len(chunks) :
    chunks[k] = Slice(text, Len(Concat(SubSeq(chunks, 1, k - 1))),
                      Len(Concat(SubSeq(chunks, 1, k))))

NonEmpty(chunks) == \A k \in 1..Len(chunks) : Len(chunks[k]) > 0

\* C35: the chunks createChunks returns are consecutive, non-empty slices of
\* the content and their concatenation is the whole content, for every
\* content and every maxChunkSize > 0.
C35_ChunksPartitionContent ==
  chunking.called =>
    /\ Consecutive(chunking.chunks, chunking.content)
    /\ NonEmpty(chunking.chunks)
    /\ Concat(chunking.chunks) = chunking.content

\* C35, amended: the chunks are consecutive, non-empty slices of the content
\* from offset 0 on; their concatenation is the whole content whenever fewer
\* than 50 chunks are returned, and otherwise exactly 50 chunks are returned
\* and the content after the 50th chunk is in no chunk.
C35_ChunksPartitionUpToCap ==
  chunking.called =>
    /\ Consecutive(chunking.chunks, chunking.content)
    /\ NonEmpty(chunking.chunks)
    /\ IsPrefix(Concat(chunking.chunks), chunking.content)
    /\ Len(chunking.chunks) < ChunkCap => Concat(chunking.chunks) = chunking.content
    /\ Len(chunking.chunks) <= ChunkCap

\* a content has been cut into several chunks, one of them an object that
\* findJsonObjectEnd found and that is shorter than the window, and all of
\* the content is in the chunks
C35_Witness ==
  /\ chunking.called
  /\ Len(chunking.chunks) >= 2
  /\ \E k \in 1..Len(chunking.chunks) :
       LET start == Len(Concat(SubSeq(chunking.chunks, 1, k - 1)))
       IN  /\ At(chunking.content, start) = "{"
           /\ findJsonObjectEnd(chunking.content, start) = start + Len(chunking.chunks[k]) - 1
           /\ Len(chunking.chunks[k]) < chunking.maxChunkSize
  /\ Concat(chunking.chunks) = chunking.content

\* C40: every chunk createChunks returns has at most maxChunkSize
\* characters, and at most 50 chunks are returned.
C40_ChunkSizeAndCountBounded ==
  chunking.called =>
    /\ \A k \in 1..Len(chunking.chunks) : Len(chunking.chunks[k]) <= chunking.maxChunkSize
    /\ Len(chunking.chunks) <= ChunkCap

\* C39: after every call of mergeJsonFiles that returns, on a new JsonMerger
\* or on one that has merged before, successful + failed + skipped equals
\* totalFiles; the invalid files are counted as skipped and every valid file
\* that could be read is in the merged data under its base name.
C39_MergeStatsAddUp ==
  (merger.calls > 0 /\ ~merger.threw) =>
    /\ merger.stats.successful + merger.stats.failed + merger.stats.skipped
         = merger.stats.totalFiles
    /\ merger.stats.skipped = Cardinality(merger.invalid)
    /\ DOMAIN merger.mergedData = {f.base : f \in merger.valid \ merger.lost}

\* the path the last cd asked for is not in the document
TargetMissing == navigateData(ShellDocument, shell.moved) \in {VUndefined, VNull}

\* C38: after a cd command whose target path does not exist in the
\* document, or whose lookup threw, currentPath is what it was before the
\* command; after cd / it is the root; after cd .. at the root it is the root.
C38_RejectedCdKeepsPath ==
  shell.count > 0 =>
    /\ (shell.targetPath \notin {<<".", ".">>, <<"/">>} /\ (TargetMissing \/ shell.threw)) =>
         shell.currentPath = shell.before
    /\ shell.targetPath = <<"/">> => shell.currentPath = <<>>
    /\ (shell.targetPath = <<".", ".">> /\ shell.before = <<>>) => shell.currentPath = <<>>

\* this.results of a new FinalJSONParser after directParse of a document
FinalFresh(value) == analyzeCompleteStructure(FreshResults, value, 0)

\* C36: for a document nested no deeper than the cutoff, the report of
\* directParse on a new StreamingJSONParser has the type distribution, the
\* totalElements and the maxDepth that directParse on a new FinalJSONParser
\* reports for the same document.
C36_DirectParsersAgree ==
  (/\ parser = "streaming"
   /\ Len(docs) >= 1
   /\ docs[1].ok
   /\ docs[1].val.tag # "null"
   /\ NestingDepth(docs[1].val) <= DepthCutoff) =>
    /\ returned[1].stats.typeDistribution = FinalFresh(docs[1].val).typeCounts
    /\ returned[1].stats.totalElements = FinalFresh(docs[1].val).totalElements
    /\ returned[1].stats.maxDepth = FinalFresh(docs[1].val).maxDepth

====
